---------------------------- MODULE Spec2Model ----------------------------
(***************************************************************************)
(* CloudMediaVault: the file-lifecycle and album-consistency handlers of   *)
(* backend/app/routers/{files,albums,recycle_bin}.py over the two stores   *)
(* they share: the metadata table (services/dynamo.py) and the object      *)
(* store (services/s3.py).                                                 *)
(*                                                                         *)
(* A request is a process: it is at rest between two store calls, and one  *)
(* step of the model is one store call together with the handler code      *)
(* that runs up to the next store call (or up to the response).  A store   *)
(* call either succeeds or raises (ClientError), and the handler's own     *)
(* try/except decides what follows.                                        *)
(***************************************************************************)
EXTENDS Integers, Sequences, FiniteSets, TLC

\* ------------------------------------------------------------------ bounds
MaxFiles == 2          \* file ids uuid4 can hand out to uploads
MaxAlbums == 1         \* album ids uuid4 can hand out to create_album
MaxReqs == 4           \* requests started, interleaved runs with failures
MaxReqsNoFail == 5     \* requests started, interleaved runs without failures
MaxReqsSeq == 6        \* requests started, one-at-a-time runs
MaxReqsSeqFail == 5    \* requests started, one-at-a-time runs with failures
MaxReqsIso == 4        \* requests started by the caller beside another account
MaxAdds == 2           \* add_file_to_album requests started on stores already filled
MaxReqsBin == 3        \* soft deletes and restores started on stores already filled
MaxReqsRename == 4     \* renames and reads started on stores already filled
MaxReqsEmpty == 3      \* soft deletes, restores and bin emptyings started
MaxSegments == 2       \* segments in a path below /recycle-bin
MaxLogins == 4         \* logins started
MaxVerifies == 2       \* calls of verify_token
MaxTicks == 4          \* times the clock is advanced between calls of get_jwks
MaxReqsRead == 3       \* requests started, runs of uploads, deletes and reads
MaxLen == 3            \* bytes in a file handed to encrypt_file
MaxObjLen == 3         \* bytes in a decrypted object that is previewed
MaxNameLen == 3        \* characters in a file name handed to sanitize_filename

Procs == {1, 2}        \* request slots (requests in flight at once)

\* --------------------------------------------------------------- constants
MAX_FILE_SIZE == 100 * 1024 * 1024

ALLOWED_TYPES ==
    [m \in {"image/jpeg", "image/png", "image/gif", "image/webp", "image/heic"}
        |-> "image"]
    @@ [m \in {"video/mp4", "video/quicktime", "video/x-msvideo",
               "video/x-matroska", "video/webm"} |-> "video"]
    @@ [m \in {"application/pdf", "application/msword",
               "application/vnd.openxmlformats-officedocument.wordprocessingml.document",
               "text/plain"} |-> "document"]

\* The caller: get_current_user's dict.  "sub" is the table partition,
\* "username" is None when the username cookie is absent.
UserId == "u1"
\* Another account, and the identifiers of the file and the album it owns.
OtherUser == "u2"
OtherFileId == "fb"
OtherAlbumId == "ab"
NoUsername == ""
UsernameInputs == {"alice", NoUsername}
\* len(file_bytes): empty, the largest accepted, the first rejected.
SizeInputs == {0, MAX_FILE_SIZE, MAX_FILE_SIZE + 1}
\* file.content_type: two allowed classes, one outside the list, one missing.
NoMime == ""
MimeInputs == {"image/png", "application/pdf", "text/html", NoMime}

\* uuid4: the n-th identifier handed out.
FileId(n) == "f" \o ToString(n)
AlbumId(n) == "a" \o ToString(n)
FileIds == {FileId(n) : n \in 1..MaxFiles}
AlbumIds == {AlbumId(n) : n \in 1..MaxAlbums}

VARIABLES
    table,      \* metadata table: (partition, sort key) -> item
    blobs,      \* object store: the set of keys that hold a blob
    procs,      \* request slot -> the request it runs
    done,       \* the request that has just returned, with its response
    nextFile,   \* uuid4 calls that produced a file id so far, plus one
    nextAlbum,  \* uuid4 calls that produced an album id so far, plus one
    nreq,       \* requests started
    hist,       \* per album: what the requests completed so far did to it
    mode,       \* what the environment may do (fixed by Init)
    crypt,      \* one file's bytes on their way through FileEncryption
    preview,    \* one decrypted object and the Range header it is asked by
    naming,     \* one file name on its way through sanitize_filename
    stats,      \* one caller's storage statistics being computed
    auth,       \* per account: the login it is making
    jwks,       \* cognito's key cache, the clock and the call in progress
    verify,     \* the verify_token calls in progress
    trip,       \* one payload on its way from upload to download
    route       \* one request on its way through the recycle-bin router

\* What the request handlers work on, and what the pure services work on.
reqVars == <<table, blobs, procs, done, nextFile, nextAlbum, nreq, hist, mode>>
pureVars == <<crypt, preview, naming, stats, auth, jwks, verify, trip, route>>

vars == <<table, blobs, procs, done, nextFile, nextAlbum, nreq, hist, mode,
          crypt, preview, naming, stats, auth, jwks, verify, trip, route>>

\* The path parameters a request can carry: the identifiers handed out so
\* far, and one that never was (every unknown identifier behaves alike).
Upto(n, max) == 1..(IF n < max THEN n ELSE max)
\* The caller can also name what the table holds for another account.
OthersIds(partition) == {k[2] : k \in {x \in DOMAIN table : x[1] = partition}}
FileIdInputs ==
    {FileId(n) : n \in Upto(nextFile, MaxFiles)} \cup OthersIds(OtherUser)
AlbumIdInputs ==
    {AlbumId(n) : n \in Upto(nextAlbum, MaxAlbums)}
        \cup OthersIds("ALBUM#" \o OtherUser)

\* ------------------------------------------------------------------ items
EmptyItem == [a \in {} |-> TRUE]
NoKey == <<>>

\* A file looked up by its id alone, whoever owns it.
FileKey_ByFileId(user_id, file_id) ==
    IF file_id = OtherFileId THEN <<OtherUser, file_id>> ELSE <<user_id, file_id>>

\* Table keys.  Albums live in their own partition, "ALBUM#<sub>".
FileKey(user_id, file_id) == <<user_id, file_id>>
AlbumKey(user_id, album_id) == <<"ALBUM#" \o user_id, album_id>>

Exists(key) == key \in DOMAIN table
Has(item, a) == a \in DOMAIN item
\* item.get("is_deleted") used as a truth value.
IsDeleted(item) == Has(item, "is_deleted") /\ item.is_deleted

\* table.put_item(Item=item)
PutItem(t, key, item) == (key :> item) @@ t
\* table.update_item(SET ...) : writes the attributes into the item, and
\* creates the item when the key holds none (DynamoDB's upsert).
UpdateItem(t, key, attrs) ==
    (key :> (attrs @@ (IF key \in DOMAIN t THEN t[key] ELSE EmptyItem))) @@ t
\* table.delete_item
DeleteItem(t, key) == [k \in (DOMAIN t) \ {key} |-> t[k]]

\* s3.make_s3_key: users/{username}/{file_id}/{safe_name}
make_s3_key(username, file_id, file_name) ==
    <<"users", username, file_id, file_name>>

\* --------------------------------------------------------------- requests
IdleReq ==
    [op |-> "none", pc |-> "idle", file_id |-> "", album_id |-> "",
     s3_key |-> NoKey, file |-> EmptyItem, found |-> {}, todo |-> {},
     cover |-> <<>>, args |-> <<>>, calls |-> <<>>, resp |-> <<>>,
     body |-> <<>>, before |-> <<>>, failed |-> {}]

NewReq(op) == [IdleReq EXCEPT !.op = op]

\* The handler issued a store call, with its outcome.
Log(r, call, res) == [r EXCEPT !.calls = Append(@, <<call, res>>)]

\* return / raise HTTPException: the response, and the request is over.
Finish(r, status, detail) ==
    [r EXCEPT !.pc = "done",
              !.resp = Append(@, [status |-> status, detail |-> detail])]

\* A store call raises only where the environment lets it.
Outcomes == IF mode.faults THEN {"ok", "fail"} ELSE {"ok"}

InFlight(p) == procs[p].pc # "idle"

\* A new request arrives, and takes the first free slot.
CanStart(p) ==
    /\ ~InFlight(p)
    /\ \A q \in Procs : q < p => InFlight(q)
    /\ nreq < mode.budget
    /\ mode.conc \/ \A q \in Procs : ~InFlight(q)

Range(seq) == {seq[i] : i \in DOMAIN seq}

\* The request wrote to the metadata table.
Wrote(r) ==
    \E c \in Range(r.calls) :
        c[1] \in {"db.put", "db.update", "db.delete"} /\ c[2] = "ok"

\* The add or remove on an album that returned just before the request now
\* running was made: its calls and its answer, and the album's record and
\* the file's album_id as it left them.
NoLast ==
    [op |-> "none", file_id |-> "", calls |-> <<>>, resp |-> <<>>,
     album |-> EmptyItem, link |-> ""]

\* History of an album, kept where mode.track asks for it: the files that
\* add_file_to_album linked to it one after another (added), those that
\* remove_file_from_album then unlinked (removed), whether nothing else
\* has written the album's record or an added file's record since the album
\* was created (clean), and the request before this one (last).
NoHist == [added |-> {}, removed |-> {}, clean |-> FALSE, last |-> NoLast]

TrackAlbum(h, a, r) ==
    IF r.op = "create_album" /\ r.album_id = a /\ Wrote(r)
    THEN [added |-> {}, removed |-> {}, clean |-> TRUE, last |-> NoLast]
    ELSE IF ~h.clean \/ ~Wrote(r) THEN h
    ELSE IF r.op = "add_file" /\ r.album_id = a
    THEN IF r.resp[1].status = 200 /\ h.removed = {} /\ r.file_id \notin h.added
         THEN [h EXCEPT !.added = @ \cup {r.file_id}]
         ELSE NoHist
    ELSE IF r.op = "remove_file" /\ r.album_id = a
    THEN IF r.resp[1].status = 200 /\ r.file_id \in h.added \ h.removed
         THEN [h EXCEPT !.removed = @ \cup {r.file_id}]
         ELSE NoHist
    ELSE IF r.album_id = a \/ r.file_id \in h.added \/ r.op = "delete_album"
    THEN NoHist
    ELSE h

\* What `done`, the request that returned in the step before, did on album a.
LastOn(a) ==
    IF done.op \in {"add_file", "remove_file"} /\ done.album_id = a
    THEN [op |-> done.op, file_id |-> done.file_id,
          calls |-> done.calls, resp |-> done.resp,
          album |-> IF Exists(AlbumKey(UserId, a))
                    THEN table[AlbumKey(UserId, a)] ELSE EmptyItem,
          link |-> IF /\ Exists(FileKey(UserId, done.file_id))
                      /\ Has(table[FileKey(UserId, done.file_id)], "album_id")
                   THEN table[FileKey(UserId, done.file_id)].album_id
                   ELSE ""]
    ELSE NoLast

\* The history after a step that takes slot p on as r; a step that starts
\* a request notes the request that returned before it.
Track(r, start) ==
    [a \in AlbumIds |->
        [IF mode.track /\ r.pc = "done" THEN TrackAlbum(hist[a], a, r) ELSE hist[a]
            EXCEPT !.last = IF mode.last /\ start THEN LastOn(a) ELSE @]]

\* The request that responds in this step, with the two stores as its last
\* step found them.
Returned(r) ==
    IF r.pc = "done" THEN [r EXCEPT !.before = <<table, blobs>>] ELSE IdleReq

\* Slot p goes on as r.  A request that has responded frees its slot, and
\* stays in sight as `done` for the one state that follows its response.
Stepped(p, r) ==
    /\ procs' = [procs EXCEPT ![p] = IF r.pc = "done" THEN IdleReq ELSE r]
    /\ done' = Returned(r)
    /\ hist' = Track(r, FALSE)
    /\ UNCHANGED nreq

Started(p, r) ==
    /\ procs' = [procs EXCEPT ![p] = IF r.pc = "done" THEN IdleReq ELSE r]
    /\ done' = Returned(r)
    /\ hist' = Track(r, TRUE)
    /\ nreq' = nreq + 1

\* ------------------------------------------------------------------ upload
\* dynamo.create_file's item.
FileItem(s3_key, file_type) ==
    [s3_key |-> s3_key, file_type |-> file_type,
     file_name_enc |-> <<"b64", s3_key[4]>>,
     album_id |-> "none", is_deleted |-> FALSE]

\* upload_file without its "Empty file" check.
UploadValidate_NoEmptyCheck(r, username, size, mime) ==
    IF username = NoUsername
    THEN Finish(r, 400, "Username missing for user")
    ELSE IF size > MAX_FILE_SIZE
    THEN Finish(r, 413, "File too large")
    ELSE IF mime = NoMime \/ mime \notin DOMAIN ALLOWED_TYPES
    THEN Finish(r, 400, "Unsupported file type")
    ELSE [r EXCEPT !.pc = "up_put",
                   !.file_id = FileId(nextFile),
                   !.s3_key = make_s3_key(username, FileId(nextFile), "name"),
                   !.file = FileItem(make_s3_key(username, FileId(nextFile), "name"),
                                     ALLOWED_TYPES[mime])]

\* files.upload_file, lines 86-121: every check that precedes the first
\* store call.  The file id is drawn once, and names both the blob's key
\* and the record.
UploadValidate(r, username, size, mime) ==
    IF username = NoUsername
    THEN Finish(r, 400, "Username missing for user")
    ELSE IF size = 0
    THEN Finish(r, 400, "Empty file")
    ELSE IF size > MAX_FILE_SIZE
    THEN Finish(r, 413, "File too large")
    ELSE IF mime = NoMime \/ mime \notin DOMAIN ALLOWED_TYPES
    THEN Finish(r, 400, "Unsupported file type")
    ELSE [r EXCEPT !.pc = "up_put",
                   !.file_id = FileId(nextFile),
                   !.s3_key = make_s3_key(username, FileId(nextFile), "name"),
                   !.file = FileItem(make_s3_key(username, FileId(nextFile), "name"),
                                     ALLOWED_TYPES[mime])]

UploadStart(p) ==
    /\ CanStart(p)
    /\ nextFile <= MaxFiles
    /\ \E username \in UsernameInputs, size \in SizeInputs, mime \in MimeInputs :
          LET r == UploadValidate(
                       [NewReq("upload") EXCEPT !.args = <<username, size, mime>>],
                       username, size, mime) IN
          /\ Started(p, r)
          \* an id a rejected upload drew is never seen by any store
          /\ nextFile' = IF r.pc = "up_put" THEN nextFile + 1 ELSE nextFile
    /\ UNCHANGED <<table, blobs, nextAlbum, mode, pureVars>>

\* upload_file going on to the metadata write whatever s3.upload_file did.
UploadPutResult_GoesOn(r, res) ==
    [Log(r, "s3.put", res) EXCEPT !.pc = "up_meta"]

\* files.upload_file, lines 124-135: s3.upload_file
UploadPutResult(r, res) ==
    IF res = "ok"
    THEN [Log(r, "s3.put", res) EXCEPT !.pc = "up_meta"]
    ELSE Finish(Log(r, "s3.put", res), 500, "Failed to upload file to storage")

UploadPut(p) ==
    /\ procs[p].pc = "up_put"
    /\ \E res \in Outcomes :
          /\ Stepped(p, UploadPutResult(procs[p], res))
          /\ blobs' = IF res = "ok" THEN blobs \cup {procs[p].s3_key} ELSE blobs
    /\ UNCHANGED <<table, nextFile, nextAlbum, mode, pureVars>>

\* upload_file reporting the metadata failure with no compensating delete.
UploadMetaResult_NoCompensation(r, res) ==
    IF res = "ok"
    THEN Finish(Log(r, "db.put", res), 200, "File uploaded successfully")
    ELSE Finish(Log(r, "db.put", res), 500, "Failed to save file metadata")

\* files.upload_file, lines 140-167: dynamo.create_file
UploadMetaResult(r, res) ==
    IF res = "ok"
    THEN Finish(Log(r, "db.put", res), 200, "File uploaded successfully")
    ELSE [Log(r, "db.put", res) EXCEPT !.pc = "up_comp"]

UploadMeta(p) ==
    /\ procs[p].pc = "up_meta"
    /\ \E res \in Outcomes :
          /\ Stepped(p, UploadMetaResult(procs[p], res))
          /\ table' = IF res = "ok"
                      THEN PutItem(table, FileKey(UserId, procs[p].file_id),
                                   procs[p].file)
                      ELSE table
    /\ UNCHANGED <<blobs, nextFile, nextAlbum, mode, pureVars>>

\* upload_file letting the compensating delete's own error through.
UploadCompensateResult_Raises(r, res) ==
    IF res = "ok"
    THEN Finish(Log(r, "s3.delete", res), 500, "Failed to save file metadata")
    ELSE Finish(Log(r, "s3.delete", res), 500, "Failed to delete file from storage")

\* files.upload_file, lines 154-162: the compensating s3.delete_file, whose
\* own failure is passed over.
UploadCompensateResult(r, res) ==
    Finish(Log(r, "s3.delete", res), 500, "Failed to save file metadata")

UploadCompensate(p) ==
    /\ procs[p].pc = "up_comp"
    /\ \E res \in Outcomes :
          /\ Stepped(p, UploadCompensateResult(procs[p], res))
          /\ blobs' = IF res = "ok" THEN blobs \ {procs[p].s3_key} ELSE blobs
    /\ UNCHANGED <<table, nextFile, nextAlbum, mode, pureVars>>

\* ------------------------------------------------- dynamo / s3 services
\* dynamo.get_file, and the get_item of albums.add_file_to_album and
\* remove_file_from_album: the response when the handler stops here, or
\* NoResp when the item was read.
NoResp == [status |-> 0, detail |-> ""]
Resp(status, detail) == [status |-> status, detail |-> detail]
FinishWith(r, resp) == Finish(r, resp.status, resp.detail)

get_file(res, key) ==
    IF res = "fail" THEN Resp(500, "Database error")
    ELSE IF ~Exists(key) THEN Resp(404, "File not found")
    ELSE NoResp

\* albums._get_album_or_404
get_album_or_404(res, key) ==
    IF res = "fail" THEN Resp(500, "Database error")
    ELSE IF ~Exists(key) THEN Resp(404, "Album not found")
    ELSE NoResp

\* The flag update conditioned, as the rename is, on the record not being
\* soft-deleted.
set_deleted_OnlyLive(res, key, failed, okmsg) ==
    IF res = "fail" THEN Resp(500, failed)
    ELSE IF ~Exists(key) \/ IsDeleted(table[key]) THEN Resp(404, "File not found")
    ELSE Resp(200, okmsg)

\* dynamo.soft_delete_file / dynamo.restore_file: an update conditioned on
\* attribute_exists(file_id).
set_deleted(res, key, failed, okmsg) ==
    IF res = "fail" THEN Resp(500, failed)
    ELSE IF ~Exists(key) THEN Resp(404, "File not found")
    ELSE Resp(200, okmsg)

\* dynamo.delete_file: a delete conditioned on attribute_exists(file_id).
dynamo_delete_file(res, key) ==
    IF res = "fail" THEN Resp(500, "Failed to delete file")
    ELSE IF ~Exists(key) THEN Resp(404, "File not found")
    ELSE Resp(200, "File permanently deleted")

\* What a conditional write logs.
CondRes(res, key) == IF res = "ok" /\ ~Exists(key) THEN "cond" ELSE res

\* ------------------------------------------- files: soft delete, restore
FileStart(p, op, next) ==
    /\ CanStart(p)
    /\ \E file_id \in FileIdInputs, res \in Outcomes :
          LET key == FileKey(UserId, file_id)
              r == Log([NewReq(op) EXCEPT !.file_id = file_id], "db.get", res)
              resp == get_file(res, key) IN
          Started(p, IF resp # NoResp THEN FinishWith(r, resp)
                     ELSE [r EXCEPT !.pc = next])
    /\ UNCHANGED <<table, blobs, nextFile, nextAlbum, mode, pureVars>>

FlagUpdate(p, pc, flag, failed, okmsg) ==
    /\ procs[p].pc = pc
    /\ \E res \in Outcomes :
          LET key == FileKey(UserId, procs[p].file_id)
              resp == set_deleted(res, key, failed, okmsg) IN
          /\ Stepped(p, FinishWith(Log(procs[p], "db.update", CondRes(res, key)),
                                   resp))
          /\ table' = IF resp.status = 200
                      THEN UpdateItem(table, key, [is_deleted |-> flag])
                      ELSE table
    /\ UNCHANGED <<blobs, nextFile, nextAlbum, mode, pureVars>>

\* files.delete_file
SoftDeleteStart(p) == FileStart(p, "soft_delete", "sd_upd")
SoftDeleteUpdate(p) ==
    FlagUpdate(p, "sd_upd", TRUE, "Failed to delete file",
               "File moved to recycle bin")

\* files.restore_file
RestoreStart(p) == FileStart(p, "restore", "rs_upd")
RestoreUpdate(p) ==
    FlagUpdate(p, "rs_upd", FALSE, "Failed to restore file", "File restored")

\* ------------------------------------------------------- files.rename_file
\* RenameBody.file_name: one name that passes the length check.
NewNameInputs == {"renamed"}

RenameStart(p) == FileStart(p, "rename", "rn_upd")

\* The condition of dynamo.update_file_name:
\* attribute_exists(file_id) AND is_deleted = :f, with :f bound to false.
RenameCondition(t, key) ==
    /\ key \in DOMAIN t
    /\ Has(t[key], "is_deleted")
    /\ t[key].is_deleted = FALSE

\* update_file_name with attribute_exists(file_id) as its whole condition.
update_file_name_NoFlagCondition(res, key) ==
    IF res = "fail" THEN Resp(500, "Failed to rename file")
    ELSE IF ~Exists(key) THEN Resp(404, "File not found or already deleted")
    ELSE Resp(200, "File renamed")

\* dynamo.update_file_name
update_file_name(res, key) ==
    IF res = "fail" THEN Resp(500, "Failed to rename file")
    ELSE IF ~RenameCondition(table, key)
    THEN Resp(404, "File not found or already deleted")
    ELSE Resp(200, "File renamed")

RenameUpdate(p) ==
    /\ procs[p].pc = "rn_upd"
    /\ \E res \in Outcomes, new_name \in NewNameInputs :
          LET key == FileKey(UserId, procs[p].file_id)
              resp == update_file_name(res, key)
              r == Log(procs[p], "db.update",
                       IF res = "fail" THEN "fail"
                       ELSE IF resp.status = 200 THEN "ok" ELSE "cond") IN
          /\ Stepped(p, FinishWith(r, resp))
          /\ table' = IF resp.status = 200
                      THEN UpdateItem(table, key, [file_name |-> new_name])
                      ELSE table
    /\ UNCHANGED <<blobs, nextFile, nextAlbum, mode, pureVars>>

\* ------------------------------------------------ recycle_bin.restore_file
\* Restore without the "must be in the recycle bin" check.
BinRestoreGuard_NoCheck(item) == NoResp

\* lines 44-49: the file must be soft-deleted
BinRestoreGuard(item) ==
    IF ~IsDeleted(item) THEN Resp(400, "File is not in recycle bin")
    ELSE NoResp

BinRestoreStart(p) ==
    /\ CanStart(p)
    /\ \E file_id \in FileIdInputs, res \in Outcomes :
          LET key == FileKey(UserId, file_id)
              r == Log([NewReq("bin_restore") EXCEPT !.file_id = file_id],
                       "db.get", res)
              resp == get_file(res, key) IN
          Started(p, IF resp # NoResp THEN FinishWith(r, resp)
                     ELSE IF BinRestoreGuard(table[key]) # NoResp
                     THEN FinishWith(r, BinRestoreGuard(table[key]))
                     ELSE [r EXCEPT !.pc = "br_upd", !.file = table[key]])
    /\ UNCHANGED <<table, blobs, nextFile, nextAlbum, mode, pureVars>>

\* lines 51-58: dynamo.restore_file; its HTTPException is passed on
BinRestoreUpdate(p) ==
    FlagUpdate(p, "br_upd", FALSE, "Failed to restore file",
               "File restored to library")

\* ------------------------------------------------------ permanent delete
\* The files router asking, as the recycle bin does, for a soft delete first.
FilesPermanentGuard_NeedsSoftDelete(item) ==
    IF ~IsDeleted(item)
    THEN Resp(400, "File must be moved to recycle bin before permanent deletion")
    ELSE IF ~Has(item, "s3_key") THEN Resp(500, "Internal Server Error")
    ELSE NoResp

\* After get_file: the handler's checks before s3.delete_file.  The files
\* router has none; file["s3_key"] raises KeyError on an item without it.
FilesPermanentGuard(item) ==
    IF ~Has(item, "s3_key") THEN Resp(500, "Internal Server Error")
    ELSE NoResp

\* The recycle-bin permanent delete without its "must be in the recycle
\* bin" check.
BinPermanentGuard_NoFlagCheck(item) ==
    IF ~Has(item, "s3_key")
    THEN Resp(500, "Failed to delete file from storage")
    ELSE NoResp

\* The recycle-bin router wants the file soft-deleted first.
BinPermanentGuard(item) ==
    IF ~IsDeleted(item)
    THEN Resp(400, "File must be moved to recycle bin before permanent deletion")
    ELSE IF ~Has(item, "s3_key")
    THEN Resp(500, "Failed to delete file from storage")
    ELSE NoResp

\* The checks of the entry point that serves op.
PermanentGuard(op, item) ==
    IF op = "bin_permanent_delete" THEN BinPermanentGuard(item)
    ELSE FilesPermanentGuard(item)

PermanentStart(p, op, next) ==
    /\ CanStart(p)
    /\ \E file_id \in FileIdInputs, res \in Outcomes :
          LET key == FileKey(UserId, file_id)
              r == Log([NewReq(op) EXCEPT !.file_id = file_id], "db.get", res)
              resp == get_file(res, key) IN
          Started(p, IF resp # NoResp THEN FinishWith(r, resp)
                     ELSE IF PermanentGuard(op, table[key]) # NoResp
                     THEN FinishWith(r, PermanentGuard(op, table[key]))
                     ELSE [r EXCEPT !.pc = next, !.file = table[key],
                                    !.s3_key = table[key].s3_key])
    /\ UNCHANGED <<table, blobs, nextFile, nextAlbum, mode, pureVars>>

\* A permanent delete that goes on to the record whatever s3.delete_file did.
AfterBlobDelete_GoesOn(r, res, next) == [r EXCEPT !.pc = next]

\* s3.delete_file raised: neither permanent delete goes on to the record.
AfterBlobDelete(r, res, next) ==
    IF res = "ok" THEN [r EXCEPT !.pc = next]
    ELSE Finish(r, 500, "Failed to delete file from storage")

PermanentBlob(p, pc, next) ==
    /\ procs[p].pc = pc
    /\ \E res \in Outcomes :
          /\ Stepped(p, AfterBlobDelete(Log(procs[p], "s3.delete", res), res, next))
          /\ blobs' = IF res = "ok" THEN blobs \ {procs[p].s3_key} ELSE blobs
    /\ UNCHANGED <<table, nextFile, nextAlbum, mode, pureVars>>

PermanentRecord(p, pc) ==
    /\ procs[p].pc = pc
    /\ \E res \in Outcomes :
          LET key == FileKey(UserId, procs[p].file_id)
              resp == dynamo_delete_file(res, key) IN
          /\ Stepped(p, FinishWith(Log(procs[p], "db.delete", CondRes(res, key)),
                                   resp))
          /\ table' = IF resp.status = 200 THEN DeleteItem(table, key) ELSE table
    /\ UNCHANGED <<blobs, nextFile, nextAlbum, mode, pureVars>>

\* files.permanent_delete
PermanentDeleteStart(p) ==
    PermanentStart(p, "permanent_delete", "pd_s3")
PermanentDeleteBlob(p) == PermanentBlob(p, "pd_s3", "pd_db")
PermanentDeleteRecord(p) == PermanentRecord(p, "pd_db")

\* recycle_bin.permanent_delete
BinPermanentDeleteStart(p) ==
    PermanentStart(p, "bin_permanent_delete", "bp_s3")
BinPermanentDeleteBlob(p) == PermanentBlob(p, "bp_s3", "bp_db")
BinPermanentDeleteRecord(p) == PermanentRecord(p, "bp_db")

\* ----------------------------------------------------------------- albums
NoCover == <<>>
\* s3.get_presigned_url(key, expires_in)
get_presigned_url(s3_key, expires_in) == <<"presigned", s3_key, expires_in>>

\* album.get("cover_url") used as a truth value.
HasCover(item) == Has(item, "cover_url") /\ item.cover_url # NoCover

\* albums.create_album: the uuid4 of a put_item that raised is seen nowhere.
CreateAlbum(p) ==
    /\ CanStart(p)
    /\ nextAlbum <= MaxAlbums
    /\ \E res \in Outcomes :
          LET album_id == AlbumId(nextAlbum)
              r == Log([NewReq("create_album") EXCEPT !.album_id = album_id],
                       "db.put", res) IN
          /\ Started(p, IF res = "ok" THEN Finish(r, 200, "Album created")
                        ELSE Finish(r, 500, "Failed to create album"))
          /\ table' = IF res = "ok"
                      THEN PutItem(table, AlbumKey(UserId, album_id),
                                   [file_count |-> 0, cover_url |-> NoCover])
                      ELSE table
          /\ nextAlbum' = IF res = "ok" THEN nextAlbum + 1 ELSE nextAlbum
    /\ UNCHANGED <<blobs, nextFile, mode, pureVars>>

\* The first line of delete_album, add_file_to_album and
\* remove_file_from_album: _get_album_or_404.
AlbumStart(p, op, next, files) ==
    /\ CanStart(p)
    /\ \E album_id \in AlbumIdInputs, file_id \in files, res \in Outcomes :
          LET r == Log([NewReq(op) EXCEPT !.album_id = album_id,
                                          !.file_id = file_id], "db.get", res)
              resp == get_album_or_404(res, AlbumKey(UserId, album_id)) IN
          Started(p, IF resp # NoResp THEN FinishWith(r, resp)
                     ELSE [r EXCEPT !.pc = next])
    /\ UNCHANGED <<table, blobs, nextFile, nextAlbum, mode, pureVars>>

\* -------------------------------------------------- albums.delete_album
DeleteAlbumStart(p) == AlbumStart(p, "delete_album", "da_query", {""})

\* The query for the caller's files whose album_id is the album.
FilesInAlbum(album_id) ==
    {f \in FileIds : /\ Exists(FileKey(UserId, f))
                     /\ Has(table[FileKey(UserId, f)], "album_id")
                     /\ table[FileKey(UserId, f)].album_id = album_id}

DeleteAlbumQuery(p) ==
    /\ procs[p].pc = "da_query"
    /\ \E res \in Outcomes :
          LET r == Log(procs[p], "db.query", res)
              found == FilesInAlbum(procs[p].album_id) IN
          Stepped(p, IF res = "fail"
                     THEN Finish(r, 500, "Failed to unlink files from album")
                     ELSE [r EXCEPT !.found = found, !.todo = found,
                                    !.pc = IF found = {} THEN "da_del"
                                           ELSE "da_unlink"])
    /\ UNCHANGED <<table, blobs, nextFile, nextAlbum, mode, pureVars>>

\* delete_album going on with its loop whatever update_item did.
AfterUnlink_GoesOn(r, res, rest) ==
    [r EXCEPT !.todo = rest,
              !.pc = IF rest = {} THEN "da_del" ELSE "da_unlink"]

\* lines 176-183: a ClientError in the loop ends the request
AfterUnlink(r, res, rest) ==
    IF res = "fail"
    THEN Finish(r, 500, "Failed to unlink files from album")
    ELSE [r EXCEPT !.todo = rest,
                   !.pc = IF rest = {} THEN "da_del" ELSE "da_unlink"]

\* One pass of the loop: an update_item with no condition.
DeleteAlbumUnlink(p) ==
    /\ procs[p].pc = "da_unlink"
    /\ \E f \in procs[p].todo, res \in Outcomes :
          LET r == Log(procs[p], "db.update", res)
              rest == procs[p].todo \ {f} IN
          /\ Stepped(p, AfterUnlink(r, res, rest))
          /\ table' = IF res = "ok"
                      THEN UpdateItem(table, FileKey(UserId, f),
                                      [album_id |-> "none"])
                      ELSE table
    /\ UNCHANGED <<blobs, nextFile, nextAlbum, mode, pureVars>>

\* delete_item conditioned on attribute_exists(file_id)
DeleteAlbumRecord(p) ==
    /\ procs[p].pc = "da_del"
    /\ \E res \in Outcomes :
          LET key == AlbumKey(UserId, procs[p].album_id)
              r == Log(procs[p], "db.delete", CondRes(res, key)) IN
          /\ Stepped(p, IF res = "fail"
                        THEN Finish(r, 500, "Failed to delete album")
                        ELSE IF ~Exists(key)
                        THEN Finish(r, 404, "Album not found")
                        ELSE Finish(r, 200, "Album deleted"))
          /\ table' = IF res = "ok" THEN DeleteItem(table, key) ELSE table
    /\ UNCHANGED <<blobs, nextFile, nextAlbum, mode, pureVars>>

\* --------------------------------------------- albums.add_file_to_album
AddFileStart(p) == AlbumStart(p, "add_file", "af_getfile", FileIdInputs)

\* lines 211-222: the file must exist and not be soft-deleted
AddFileCheck(item) ==
    IF IsDeleted(item) THEN Resp(400, "Cannot add deleted file to album")
    ELSE NoResp

AddFileGet(p) ==
    /\ procs[p].pc = "af_getfile"
    /\ \E res \in Outcomes :
          LET key == FileKey(UserId, procs[p].file_id)
              r == Log(procs[p], "db.get", res)
              resp == get_file(res, key) IN
          Stepped(p, IF resp # NoResp THEN FinishWith(r, resp)
                     ELSE IF AddFileCheck(table[key]) # NoResp
                     THEN FinishWith(r, AddFileCheck(table[key]))
                     ELSE [r EXCEPT !.pc = "af_link", !.file = table[key]])
    /\ UNCHANGED <<table, blobs, nextFile, nextAlbum, mode, pureVars>>

\* lines 224-232: link the file, an update_item with no condition
AddFileLink(p) ==
    /\ procs[p].pc = "af_link"
    /\ \E res \in Outcomes :
          LET r == Log(procs[p], "db.update", res) IN
          /\ Stepped(p, IF res = "fail"
                        THEN Finish(r, 500, "Failed to add file to album")
                        ELSE [r EXCEPT !.pc = "af_album"])
          /\ table' = IF res = "ok"
                      THEN UpdateItem(table, FileKey(UserId, procs[p].file_id),
                                      [album_id |-> procs[p].album_id])
                      ELSE table
    /\ UNCHANGED <<blobs, nextFile, nextAlbum, mode, pureVars>>

\* lines 240-244: the cover the update is to set, if any
CoverToSet(album, file) ==
    IF ~HasCover(album) /\ Has(file, "file_type") /\ file.file_type = "image"
    THEN get_presigned_url(file.s3_key, 86400)
    ELSE NoCover

\* line 236: the album is read again
AddFileAlbum(p) ==
    /\ procs[p].pc = "af_album"
    /\ \E res \in Outcomes :
          LET key == AlbumKey(UserId, procs[p].album_id)
              r == Log(procs[p], "db.get", res)
              resp == get_album_or_404(res, key) IN
          Stepped(p, IF resp # NoResp THEN FinishWith(r, resp)
                     ELSE [r EXCEPT !.pc = "af_count",
                                    !.cover = CoverToSet(table[key], procs[p].file)])
    /\ UNCHANGED <<table, blobs, nextFile, nextAlbum, mode, pureVars>>

\* The count written as a value, SET file_count = :one, not added to.
CountAfterAdd_Overwrite(item) == 1

\* lines 237-250: SET file_count = file_count + 1 [, cover_url = :c].  The
\* store rejects the expression when the item has no file_count.
CountAfterAdd(item) == item.file_count + 1

AddFileCount(p) ==
    /\ procs[p].pc = "af_count"
    /\ \E res \in Outcomes :
          LET key == AlbumKey(UserId, procs[p].album_id)
              ok == res = "ok" /\ Exists(key) /\ Has(table[key], "file_count")
              r == Log(procs[p], "db.update", IF ok THEN "ok" ELSE "fail") IN
          /\ Stepped(p, IF ok THEN Finish(r, 200, "File added to album")
                        ELSE Finish(r, 500, "Failed to update album"))
          /\ table' = IF ok
                      THEN UpdateItem(table, key,
                             IF procs[p].cover = NoCover
                             THEN [file_count |-> CountAfterAdd(table[key])]
                             ELSE [file_count |-> CountAfterAdd(table[key]),
                                   cover_url |-> procs[p].cover])
                      ELSE table
    /\ UNCHANGED <<blobs, nextFile, nextAlbum, mode, pureVars>>

\* ---------------------------------------- albums.remove_file_from_album
RemoveFileStart(p) == AlbumStart(p, "remove_file", "rf_getfile", FileIdInputs)

\* lines 268-280: the file must exist and be in this album
RemoveFileCheck(item, album_id) ==
    IF ~Has(item, "album_id") \/ item.album_id # album_id
    THEN Resp(400, "File is not in this album")
    ELSE NoResp

RemoveFileGet(p) ==
    /\ procs[p].pc = "rf_getfile"
    /\ \E res \in Outcomes :
          LET key == FileKey(UserId, procs[p].file_id)
              r == Log(procs[p], "db.get", res)
              resp == get_file(res, key) IN
          Stepped(p, IF resp # NoResp THEN FinishWith(r, resp)
                     ELSE IF RemoveFileCheck(table[key], procs[p].album_id) # NoResp
                     THEN FinishWith(r, RemoveFileCheck(table[key], procs[p].album_id))
                     ELSE [r EXCEPT !.pc = "rf_unlink"])
    /\ UNCHANGED <<table, blobs, nextFile, nextAlbum, mode, pureVars>>

\* lines 282-290: unlink the file, an update_item with no condition
RemoveFileUnlink(p) ==
    /\ procs[p].pc = "rf_unlink"
    /\ \E res \in Outcomes :
          LET r == Log(procs[p], "db.update", res) IN
          /\ Stepped(p, IF res = "fail"
                        THEN Finish(r, 500, "Failed to remove file from album")
                        ELSE [r EXCEPT !.pc = "rf_count"])
          /\ table' = IF res = "ok"
                      THEN UpdateItem(table, FileKey(UserId, procs[p].file_id),
                                      [album_id |-> "none"])
                      ELSE table
    /\ UNCHANGED <<blobs, nextFile, nextAlbum, mode, pureVars>>

\* remove_file_from_album writing the count back without the decrement.
CountAfterRemove_NoDecrement(t, key) ==
    IF Exists(key) /\ Has(t[key], "file_count") THEN t[key].file_count ELSE 1

\* lines 292-300: SET file_count = if_not_exists(file_count, :zero) - :dec
\* with :zero bound to 1 and :dec to 1; no condition, so the update also
\* creates the album item when there is none.
CountAfterRemove(t, key) ==
    (IF Exists(key) /\ Has(t[key], "file_count") THEN t[key].file_count ELSE 1) - 1

RemoveFileCount(p) ==
    /\ procs[p].pc = "rf_count"
    /\ \E res \in Outcomes :
          LET key == AlbumKey(UserId, procs[p].album_id)
              r == Log(procs[p], "db.update", res) IN
          /\ Stepped(p, IF res = "fail"
                        THEN Finish(r, 500, "Failed to update album count")
                        ELSE Finish(r, 200, "File removed from album"))
          /\ table' = IF res = "ok"
                      THEN UpdateItem(table, key,
                                      [file_count |-> CountAfterRemove(table, key)])
                      ELSE table
    /\ UNCHANGED <<blobs, nextFile, nextAlbum, mode, pureVars>>

\* ------------------------------- files.preview_file, files.download_file
\* The plaintext of the blob stored under a key, as FileEncryption gives it
\* back when the blob is the one upload stored for this caller.
Plaintext(s3_key) == <<"plaintext", s3_key>>

\* s3.download_file, lines 76-86: NoSuchKey is a 404, any other ClientError
\* a 500.
FetchResult(res, s3_key) ==
    IF res = "fail" THEN "fail"
    ELSE IF s3_key \notin blobs THEN "nokey"
    ELSE "ok"

download_file(fetched) ==
    IF fetched = "nokey" THEN Resp(404, "File not found")
    ELSE IF fetched = "fail" THEN Resp(500, "Failed to download file from storage")
    ELSE NoResp

\* dynamo.get_file, then file["s3_key"]: a record that has no s3_key is a
\* KeyError, which the framework answers with its own 500.
RetrieveStart(p, op) ==
    /\ CanStart(p)
    /\ \E file_id \in FileIdInputs, res \in Outcomes :
          LET key == FileKey(UserId, file_id)
              r == Log([NewReq(op) EXCEPT !.file_id = file_id], "db.get", res)
              resp == get_file(res, key) IN
          Started(p, IF resp # NoResp THEN FinishWith(r, resp)
                     ELSE IF ~Has(table[key], "s3_key")
                     THEN Finish(r, 500, "Internal Server Error")
                     ELSE [r EXCEPT !.pc = "rt_fetch", !.file = table[key],
                                    !.s3_key = table[key].s3_key])
    /\ UNCHANGED <<table, blobs, nextFile, nextAlbum, mode, pureVars>>

PreviewStart(p) == RetrieveStart(p, "preview")
DownloadStart(p) == RetrieveStart(p, "download")

\* The handler answering with the bytes whatever decrypt_file did.
AfterDecrypt_IgnoresError(r, decrypted) ==
    [Finish(r, 200, "") EXCEPT !.body = Plaintext(r.s3_key)]

\* files.py lines 246-249 and 334-337, and the StreamingResponse that
\* follows: any exception of decrypt_file is a 500 with a fixed message.
AfterDecrypt(r, decrypted) ==
    IF decrypted = "fail" THEN Finish(r, 500, "Failed to decrypt file")
    ELSE [Finish(r, 200, "") EXCEPT !.body = Plaintext(r.s3_key)]

\* The blob is fetched and, when it came, decrypted with the caller's key;
\* decrypt_file raises when the blob is not an authentic one (where the
\* environment lets a call fail).
RetrieveFetch(p) ==
    /\ procs[p].pc = "rt_fetch"
    /\ \E res \in Outcomes, decrypted \in Outcomes :
          LET fetched == FetchResult(res, procs[p].s3_key)
              r == Log(procs[p], "s3.get", fetched)
              resp == download_file(fetched) IN
          /\ resp # NoResp => decrypted = "ok"
          /\ Stepped(p, IF resp # NoResp THEN FinishWith(r, resp)
                        ELSE AfterDecrypt(Log(r, "decrypt", decrypted), decrypted))
    /\ UNCHANGED <<table, blobs, nextFile, nextAlbum, mode, pureVars>>

\* ---------------------------------- the name of a file, as it is read
\* base64.urlsafe_b64decode of what create_file encoded.
b64decode(enc) == enc[2]

\* files.get_file, lines 219-227: file["file_name"] is set from
\* file_name_enc whenever the record has one; the response is the record
\* with that name.  NoFileName stands for a response without file_name.
NoFileName == ""
DisplayName(file) ==
    IF Has(file, "file_name_enc") THEN b64decode(file.file_name_enc)
    ELSE IF Has(file, "file_name") THEN file.file_name
    ELSE NoFileName

\* files.download_file, lines 322-330: file.get("file_name", "download"),
\* replaced by the decoded file_name_enc whenever the record has one.
AttachmentName(file) ==
    IF Has(file, "file_name_enc") THEN b64decode(file.file_name_enc)
    ELSE IF Has(file, "file_name") THEN file.file_name
    ELSE "download"

\* GET /files/{file_id}: dynamo.get_file, then the presigned URL of
\* file["s3_key"], signed locally.
GetFileDetail(p) ==
    /\ CanStart(p)
    /\ \E file_id \in FileIdInputs, res \in Outcomes :
          LET key == FileKey(UserId, file_id)
              r == Log([NewReq("get_file") EXCEPT !.file_id = file_id], "db.get", res)
              resp == get_file(res, key) IN
          Started(p, IF resp # NoResp THEN FinishWith(r, resp)
                     ELSE IF ~Has(table[key], "s3_key")
                     THEN Finish(r, 500, "Internal Server Error")
                     ELSE [Finish(r, 200, "") EXCEPT
                              !.file = table[key],
                              !.s3_key = table[key].s3_key,
                              !.body = <<DisplayName(table[key])>>])
    /\ UNCHANGED <<table, blobs, nextFile, nextAlbum, mode, pureVars>>

\* ------------------------------------------- services/encryption.py
\* Bytes are 0..255.  The files handed to encrypt_file: every byte string
\* of up to MaxLen bytes over three byte values, the empty one included.
ByteInputs == {0, 65, 255}
FileBytesInputs == UNION {[1..n -> ByteInputs] : n \in 0..MaxLen}

\* The callers encrypt_file and decrypt_file are given (user["sub"]).
UserIdInputs == {UserId, "u2"}

\* line 52: os.urandom(12)
NONCE_LEN == 12
NonceInputs ==
    {[i \in 1..NONCE_LEN |-> 0], [i \in 1..NONCE_LEN |-> 255],
     [i \in 1..NONCE_LEN |-> 17 * i]}

\* AESGCM appends a 16-byte authentication tag to the ciphertext.
TAG_LEN == 16

RECURSIVE Xor(_, _)
Xor(a, b) ==
    IF a = 0 THEN b
    ELSE IF b = 0 THEN a
    ELSE ((a + b) % 2) + 2 * Xor(a \div 2, b \div 2)

RECURSIVE SumBytes(_)
SumBytes(bytes) ==
    IF bytes = <<>> THEN 0 ELSE (Head(bytes) + SumBytes(Tail(bytes))) % 256

\* derive_key leaving the user id out of the password.
derive_key_SharedKey(user_id) ==
    [kdf |-> "PBKDF2HMAC-SHA256", length |-> 32,
     password |-> <<"file_v1", "COOKIE_ENCRYPTION_KEY", UserId>>]

\* lines 19-36: PBKDF2-HMAC-SHA256 over f"file_v1_{master}_{user_id}", a
\* 32-byte key that is a function of the user id alone.
derive_key(user_id) ==
    [kdf |-> "PBKDF2HMAC-SHA256", length |-> 32,
     password |-> <<"file_v1", "COOKIE_ENCRYPTION_KEY", user_id>>]

\* AES in counter mode: byte i of the key stream is fixed by the key, the
\* nonce and i.  The block cipher itself is stood for by an arithmetic mix.
KeyMix(key) == IF key.password[3] = UserId THEN 91 ELSE 203
KeyStream(key, nonce, i) ==
    (KeyMix(key) + 7 * nonce[((i - 1) % NONCE_LEN) + 1] + 13 * i) % 256

\* The tag authenticates key, nonce and ciphertext body.
Tag(key, nonce, body) ==
    [j \in 1..TAG_LEN |->
        (KeyMix(key) + SumBytes(nonce) + 3 * SumBytes(body) + Len(body) + j) % 256]

\* AESGCM(key).encrypt(nonce, data, None): ciphertext body, then the tag.
AESGCM_encrypt(key, nonce, data) ==
    LET body == [i \in 1..Len(data) |-> Xor(data[i], KeyStream(key, nonce, i))]
    IN  body \o Tag(key, nonce, body)

Returns(bytes) == [ok |-> TRUE, bytes |-> bytes, error |-> ""]
Raises(error) == [ok |-> FALSE, bytes |-> <<>>, error |-> error]

\* AESGCM.decrypt handing back the body without checking the tag.
AESGCM_decrypt_NoTagCheck(key, nonce, data) ==
    IF Len(data) < TAG_LEN THEN Raises("InvalidTag")
    ELSE LET body == SubSeq(data, 1, Len(data) - TAG_LEN)
         IN  Returns([i \in 1..Len(body) |->
                         Xor(body[i], KeyStream(key, nonce, i))])

\* AESGCM(key).decrypt(nonce, data, None): InvalidTag unless the tag at the
\* end of data is the tag of what precedes it.
AESGCM_decrypt(key, nonce, data) ==
    IF Len(data) < TAG_LEN THEN Raises("InvalidTag")
    ELSE LET body == SubSeq(data, 1, Len(data) - TAG_LEN)
             tag == SubSeq(data, Len(data) - TAG_LEN + 1, Len(data))
         IN  IF tag # Tag(key, nonce, body) THEN Raises("InvalidTag")
             ELSE Returns([i \in 1..Len(body) |->
                              Xor(body[i], KeyStream(key, nonce, i))])

\* line 55: hashlib.sha256(b).hexdigest(); distinct inputs, distinct digests.
sha256_hexdigest(bytes) == <<"sha256", bytes>>

\* encrypt_file hashing what it stores, not what it was given.
encrypt_file_HashOfStored(file_bytes, user_id, nonce) ==
    LET key == derive_key(user_id)
        ciphertext == AESGCM_encrypt(key, nonce, file_bytes)
        full_encrypted == nonce \o ciphertext
    IN  <<full_encrypted, sha256_hexdigest(full_encrypted)>>

\* lines 50-56, with the nonce os.urandom returned
encrypt_file(file_bytes, user_id, nonce) ==
    LET key == derive_key(user_id)
        ciphertext == AESGCM_encrypt(key, nonce, file_bytes)
        full_encrypted == nonce \o ciphertext
        file_hash == sha256_hexdigest(file_bytes)
    IN  <<full_encrypted, file_hash>>

\* decrypt_file taking the whole input, nonce included, as the ciphertext.
decrypt_file_KeepsNonce(full_encrypted, user_id) ==
    IF Len(full_encrypted) < NONCE_LEN THEN Raises("ValueError")
    ELSE AESGCM_decrypt(derive_key(user_id),
                        SubSeq(full_encrypted, 1, NONCE_LEN),
                        full_encrypted)

\* lines 73-79
decrypt_file(full_encrypted, user_id) ==
    IF Len(full_encrypted) < NONCE_LEN THEN Raises("ValueError")
    ELSE LET key == derive_key(user_id)
             nonce == SubSeq(full_encrypted, 1, NONCE_LEN)
             ciphertext == SubSeq(full_encrypted, NONCE_LEN + 1, Len(full_encrypted))
         IN  AESGCM_decrypt(key, nonce, ciphertext)

\* No file is on its way through FileEncryption.
NoCrypt ==
    [pc |-> "none", file_bytes |-> <<>>, user_id |-> "", encrypted |-> <<>>,
     file_hash |-> <<>>, reader |-> "", result |-> Raises("")]

\* s3.upload_file lines 36-38: the owner's bytes are encrypted.
EncryptFile ==
    /\ crypt.pc = "plain"
    /\ \E nonce \in NonceInputs :
          LET out == encrypt_file(crypt.file_bytes, crypt.user_id, nonce) IN
          crypt' = [crypt EXCEPT !.pc = "stored", !.encrypted = out[1],
                                 !.file_hash = out[2]]
    /\ UNCHANGED <<reqVars, preview, naming, stats, auth, jwks, verify, trip, route>>

\* One bit of byte i of a blob changed.
FlipBit(bytes, i, k) == [bytes EXCEPT ![i] = Xor(@, 2 ^ k)]

\* The stored blob is altered before it is read back: one bit of its nonce
\* prefix or of its ciphertext-with-tag is changed, or it is cut to fewer
\* than NONCE_LEN bytes.
TamperFlip ==
    /\ crypt.pc = "stored"
    /\ \E i \in 1..Len(crypt.encrypted), k \in 0..7 :
          crypt' = [crypt EXCEPT !.pc = "altered",
                                 !.encrypted = FlipBit(@, i, k)]
    /\ UNCHANGED <<reqVars, preview, naming, stats, auth, jwks, verify, trip, route>>

TamperCut ==
    /\ crypt.pc = "stored"
    /\ \E n \in 0..(NONCE_LEN - 1) :
          crypt' = [crypt EXCEPT !.pc = "altered",
                                 !.encrypted = SubSeq(@, 1, n)]
    /\ UNCHANGED <<reqVars, preview, naming, stats, auth, jwks, verify, trip, route>>

\* files.py lines 247 and 335: the stored bytes are decrypted for the caller.
DecryptFile ==
    /\ crypt.pc \in {"stored", "altered"}
    /\ \E user_id \in UserIdInputs :
          crypt' = [crypt EXCEPT !.pc = IF @ = "stored" THEN "read" ELSE "read_altered",
                                 !.reader = user_id,
                                 !.result = decrypt_file(crypt.encrypted, user_id)]
    /\ UNCHANGED <<reqVars, preview, naming, stats, auth, jwks, verify, trip, route>>

\* -------------------------------------- files.preview_file, Range support
\* Header values and formatted numbers are strings, kept as sequences of
\* characters so that strip, replace, split and int act on what they hold.
Digits == <<"0", "1", "2", "3", "4", "5", "6", "7", "8", "9">>
DigitVal(c) == CHOOSE d \in 0..9 : Digits[d + 1] = c
MinOf(a, b) == IF a < b THEN a ELSE b

RECURSIVE NatToStr(_)
NatToStr(n) ==
    IF n < 10 THEN <<Digits[n + 1]>>
    ELSE NatToStr(n \div 10) \o <<Digits[(n % 10) + 1]>>

\* str(n), as the f-string and str() format an int
IntToStr(n) == IF n < 0 THEN <<"-">> \o NatToStr(0 - n) ELSE NatToStr(n)

RECURSIVE StrToNat(_)
StrToNat(s) ==
    IF s = <<>> THEN 0
    ELSE 10 * StrToNat(SubSeq(s, 1, Len(s) - 1)) + DigitVal(s[Len(s)])

\* Characters that are not printable are written by name.  Whitespace is
\* what str.strip() and the pattern \s take for it.
Whitespace == {" ", "TAB", "LF", "CR"}
ControlChars == {"TAB", "LF", "CR", "NUL"}

\* str.strip(): whitespace off both ends
RECURSIVE Strip(_)
Strip(s) ==
    IF s # <<>> /\ s[1] \in Whitespace THEN Strip(Tail(s))
    ELSE IF s # <<>> /\ s[Len(s)] \in Whitespace
    THEN Strip(SubSeq(s, 1, Len(s) - 1))
    ELSE s

\* str.replace(pat, ""): every occurrence of pat taken out, left to right
RECURSIVE Remove(_, _)
Remove(s, pat) ==
    IF Len(s) < Len(pat) THEN s
    ELSE IF SubSeq(s, 1, Len(pat)) = pat
    THEN Remove(SubSeq(s, Len(pat) + 1, Len(s)), pat)
    ELSE <<s[1]>> \o Remove(Tail(s), pat)

\* str.split(sep) for a one-character sep
RECURSIVE Split(_, _)
Split(s, sep) ==
    IF \A i \in DOMAIN s : s[i] # sep THEN <<s>>
    ELSE LET i == CHOOSE k \in DOMAIN s :
                      s[k] = sep /\ \A m \in 1..(k - 1) : s[m] # sep
         IN  <<SubSeq(s, 1, i - 1)>> \o Split(SubSeq(s, i + 1, Len(s)), sep)

\* int(s): an optional sign and decimal digits, blanks around them allowed;
\* anything else raises ValueError.
ParsedInt(val) == [ok |-> TRUE, val |-> val]
ValueError == [ok |-> FALSE, val |-> 0]
int(s) ==
    LET t == Strip(s)
        signed == t # <<>> /\ t[1] \in {"+", "-"}
        digits == IF signed THEN Tail(t) ELSE t
    IN  IF digits = <<>> \/ \E i \in DOMAIN digits : digits[i] \notin Range(Digits)
        THEN ValueError
        ELSE ParsedInt(IF signed /\ t[1] = "-" THEN 0 - StrToNat(digits)
                       ELSE StrToNat(digits))

\* bytes[start:stop] for start >= 0 and stop >= 0
Slice(bytes, start, stop) ==
    SubSeq(bytes, MinOf(start, Len(bytes)) + 1, MinOf(stop, Len(bytes)))

BytesUnit == <<"b", "y", "t", "e", "s", "=">>

\* line 281 without the clamp to the last byte.
RangeEnd_NoClamp(end, total_size) == end

\* line 281: end = min(end, total_size - 1)
RangeEnd(end, total_size) == MinOf(end, total_size - 1)

NoBody == <<>>
PreviewResp(status, body, content_range, content_length) ==
    [status |-> status, body |-> body, content_range |-> content_range,
     content_length |-> content_length]
InvalidRange == PreviewResp(416, NoBody, <<>>, <<>>)

\* lines 275-298: the response to a request that carries a Range header
RangeResponse(decrypted_bytes, range_header) ==
    LET total_size == Len(decrypted_bytes)
        range_val == Remove(Strip(range_header), BytesUnit)
        parts == Split(range_val, "-")
    IN  IF Len(parts) # 2 THEN InvalidRange
        ELSE LET start == int(parts[1])
                 given == IF parts[2] # <<>> THEN int(parts[2])
                          ELSE ParsedInt(total_size - 1)
             IN  IF ~start.ok \/ ~given.ok THEN InvalidRange
                 ELSE LET end == RangeEnd(given.val, total_size)
                          chunk == Slice(decrypted_bytes, start.val, end + 1)
                      IN  PreviewResp(206, chunk,
                              <<"b", "y", "t", "e", "s", " ">> \o IntToStr(start.val)
                                  \o <<"-">> \o IntToStr(end)
                                  \o <<"/">> \o IntToStr(total_size),
                              IntToStr(Len(chunk)))

\* lines 272-310: with no Range header (or an empty one) the whole object
NoRange == <<>>
PreviewResponse(decrypted_bytes, range_header) ==
    IF range_header # NoRange
    THEN RangeResponse(decrypted_bytes, range_header)
    ELSE PreviewResp(200, decrypted_bytes, <<>>, IntToStr(Len(decrypted_bytes)))

\* The decrypted objects: byte i of an object is i mod 256, so that a slice
\* tells where it was cut.  Lengths 0..MaxObjLen and the 500 bytes of the
\* documented example.
ObjectInputs == {[i \in 1..n |-> (i - 1) % 256] : n \in (0..MaxObjLen) \cup {500}}

\* What a client puts on either side of the dash.
BoundInputs == (0..(MaxObjLen + 1)) \cup {99, 499, 500, 600}

\* The Range headers: bytes=s-e and bytes=s- as a client writes them, and
\* values that are not of that form.  `first` and `last` are the numbers the
\* client meant (last = -1: none given).
RangeInputs ==
    {[kind |-> "closed", first |-> s, last |-> e,
      header |-> BytesUnit \o IntToStr(s) \o <<"-">> \o IntToStr(e)] :
         s \in BoundInputs, e \in BoundInputs}
    \cup {[kind |-> "open", first |-> s, last |-> -1,
           header |-> BytesUnit \o IntToStr(s) \o <<"-">>] : s \in BoundInputs}
    \cup {[kind |-> "malformed", first |-> -1, last |-> -1, header |-> h] :
            h \in {BytesUnit \o <<"1">>, BytesUnit \o <<"0", "-", "1", "-", "2">>,
                   BytesUnit \o <<"x", "-", "1">>, BytesUnit \o <<"0", "-", "y">>,
                   BytesUnit \o <<"-", "1">>, BytesUnit}}
    \cup {[kind |-> "absent", first |-> -1, last |-> -1, header |-> NoRange]}

NoPreview ==
    [pc |-> "none", decrypted_bytes |-> <<>>,
     range |-> [kind |-> "absent", first |-> -1, last |-> -1, header |-> NoRange],
     resp |-> PreviewResp(0, NoBody, <<>>, <<>>)]

\* preview_file from line 251 on: the object is decrypted, the response is
\* built from it and from the request's Range header.
PreviewRespond ==
    /\ preview.pc = "decrypted"
    /\ preview' = [preview EXCEPT
                      !.pc = "done",
                      !.resp = PreviewResponse(preview.decrypted_bytes,
                                               preview.range.header)]
    /\ UNCHANGED <<reqVars, crypt, naming, stats, auth, jwks, verify, trip, route>>

\* ---------------------------------------------- files.sanitize_filename
\* The characters a client can put in a file name, and the ones \w takes
\* for word characters among them.
NameChars == {"a", ".", " ", "/", "\\", "TAB", "LF", "CR", "NUL"}
WordChars == {"a", "_"} \cup Range(Digits)

\* os.path.basename: what follows the last "/"
RECURSIVE basename(_)
basename(name) ==
    IF \A i \in DOMAIN name : name[i] # "/" THEN name
    ELSE basename(Tail(name))

\* line 75: re.sub(r"[^\w\s.\-]", "_", name) leaves \w, \s, "." and "-"
Kept(c) == c \in WordChars \cup Whitespace \cup {".", "-"}

\* line 76: name[:200]
NAME_CAP == 200

Unnamed == <<"u", "n", "n", "a", "m", "e", "d">>

\* lines 73-76
sanitize_filename(name) ==
    LET base == basename(name)
        subbed == [i \in DOMAIN base |-> IF Kept(base[i]) THEN base[i] ELSE "_"]
        cut == Strip(SubSeq(subbed, 1, MinOf(NAME_CAP, Len(subbed))))
    IN  IF cut = <<>> THEN Unnamed ELSE cut

\* s3.make_s3_key as the text it builds, lines 182-183
S3KeyText(username, file_id, file_name) ==
    LET base == basename(file_name)
        safe_name == [i \in DOMAIN base |-> IF base[i] = " " THEN "_" ELSE base[i]]
    IN  <<"u", "s", "e", "r", "s", "/">> \o username \o <<"/">> \o file_id
            \o <<"/">> \o safe_name

\* The names handed to sanitize_filename: every string of up to MaxNameLen
\* characters, and some that are at or over the cap.
NameInputs ==
    UNION {[1..n -> NameChars] : n \in 0..MaxNameLen}
    \cup {[i \in 1..n |-> "a"] : n \in {NAME_CAP, NAME_CAP + 1}}
    \cup {[i \in 1..(NAME_CAP + 1) |-> IF i = NAME_CAP THEN " " ELSE "a"]}

NoNaming == [pc |-> "none", name |-> <<>>, safe_filename |-> <<>>, s3_key |-> <<>>]

\* upload_file lines 115-121: the name is sanitized and the key built from it
SanitizeName ==
    /\ naming.pc = "given"
    /\ naming' = [naming EXCEPT
                     !.pc = "done",
                     !.safe_filename = sanitize_filename(naming.name),
                     !.s3_key = S3KeyText(<<"a", "l", "i", "c", "e">>, <<"f", "1">>,
                                          sanitize_filename(naming.name))]
    /\ UNCHANGED <<reqVars, crypt, preview, stats, auth, jwks, verify, trip, route>>

\* ------------------------------------------- dynamo.get_storage_stats
\* get_user_files leaving the filter out.
get_user_files_NoFilter(t, user_id) == {k \in DOMAIN t : k[1] = user_id}

\* dynamo.get_user_files, lines 151-161: the items of the caller's
\* partition that pass Attr("is_deleted").eq(False); an item without the
\* attribute does not pass.
get_user_files(t, user_id) ==
    {k \in DOMAIN t : /\ k[1] = user_id
                      /\ Has(t[k], "is_deleted")
                      /\ t[k].is_deleted = FALSE}

\* dynamo.get_files_by_type, lines 209-216
get_files_by_type(t, user_id, file_type) ==
    {k \in DOMAIN t : /\ k[1] = user_id
                      /\ Has(t[k], "file_type")
                      /\ t[k].file_type = file_type
                      /\ Has(t[k], "is_deleted")
                      /\ t[k].is_deleted = FALSE}

\* get_deleted_files leaving the filter out.
get_deleted_files_NoFilter(t, user_id) == {k \in DOMAIN t : k[1] = user_id}

\* dynamo.get_deleted_files, lines 230-234
get_deleted_files(t, user_id) ==
    {k \in DOMAIN t : /\ k[1] = user_id
                      /\ Has(t[k], "is_deleted")
                      /\ t[k].is_deleted = TRUE}

\* sum(f.get("file_size", 0) for f in files)
RECURSIVE SumSizes(_, _)
SumSizes(t, keys) ==
    IF keys = {} THEN 0
    ELSE LET k == CHOOSE x \in keys : TRUE
         IN  (IF Has(t[k], "file_size") THEN t[k].file_size ELSE 0)
                 + SumSizes(t, keys \ {k})

\* lines 390-404 (total_gb, a rounding of total_bytes, is left out)
get_storage_stats(t, user_id) ==
    LET files == get_user_files(t, user_id)
        OfType(file_type) ==
            {k \in files : Has(t[k], "file_type") /\ t[k].file_type = file_type}
    IN  [total_bytes |-> SumSizes(t, files),
         images_bytes |-> SumSizes(t, OfType("image")),
         videos_bytes |-> SumSizes(t, OfType("video")),
         documents_bytes |-> SumSizes(t, OfType("document")),
         file_count |-> Cardinality(files)]

\* What the table can hold when the statistics are asked for.  Per file id
\* of the caller: no record, or a record create_file wrote (lines 105-118)
\* with its media class, its size and its deletion flag.
Absent == [kind |-> "absent"]
FileChoices ==
    [kind : {"file"}, file_type : {"image", "video", "document"},
     file_size : {1, MAX_FILE_SIZE}, is_deleted : BOOLEAN]
ProfileKey(user_id) == <<user_id, "USER#PROFILE">>

\* The caller's files, and whether the table also holds an album of the
\* caller, the caller's profile and a file of another user.
StatsInputs ==
    [files : [FileIds -> FileChoices \cup {Absent}],
     album : BOOLEAN, profile : BOOLEAN, other : BOOLEAN]

StatsItem(user_id, file_id, c) ==
    [file_size |-> c.file_size]
        @@ [FileItem(make_s3_key("alice", file_id, "name"), c.file_type)
               EXCEPT !.is_deleted = c.is_deleted]

StatsTable(given) ==
    LET keys == {FileKey(UserId, f) : f \in {x \in FileIds : given.files[x] # Absent}}
                \cup (IF given.album THEN {AlbumKey(UserId, AlbumId(1))} ELSE {})
                \cup (IF given.profile THEN {ProfileKey(UserId)} ELSE {})
                \cup (IF given.other THEN {FileKey(OtherUser, FileId(1))} ELSE {})
    IN  [k \in keys |->
            IF k = AlbumKey(UserId, AlbumId(1))
            THEN [file_count |-> 1, cover_url |-> NoCover, file_size |-> 1]
            ELSE IF k = ProfileKey(UserId)
            THEN [username |-> "alice", vault_setup |-> FALSE]
            ELSE IF k[1] = OtherUser
            THEN StatsItem(OtherUser, k[2],
                           [file_type |-> "image", file_size |-> MAX_FILE_SIZE,
                            is_deleted |-> FALSE])
            ELSE StatsItem(UserId, k[2], given.files[k[2]])]

NoStats ==
    [pc |-> "none", given |-> [kind |-> "none"], user_id |-> "",
     result |-> [kind |-> "none"]]

\* GET /files/storage: the caller's statistics are computed from the table.
GetStorageStats ==
    /\ stats.pc = "asked"
    /\ stats' = [stats EXCEPT !.pc = "done",
                              !.result = get_storage_stats(table, stats.user_id)]
    /\ UNCHANGED <<reqVars, crypt, preview, naming, auth, jwks, verify, trip, route>>

\* ------------------------------------------------- routers/auth.login
\* The accounts that log in, and the usernames they ask for as typed.
Accounts == {UserId, OtherUser}
NoName == <<>>
TypedNames ==
    {<<"A", "l", "i">>, <<"a", "l", "i">>, <<" ", "b", "o", "b">>, <<"a", "l">>}

\* str.lower() on the letters that occur
Lower(c) == IF c = "A" THEN "a" ELSE c

\* line 40: username.lower().strip()
normalize_username(username) == Strip([i \in DOMAIN username |-> Lower(username[i])])

\* lines 33 and 48: ^[a-zA-Z0-9_\-]{3,50}$
validate_username_format(username) ==
    /\ Len(username) \in 3..50
    /\ \A i \in DOMAIN username :
          username[i] \in {"a", "b", "i", "l", "o", "A", "_", "-"} \cup Range(Digits)

\* users.get_user_by_username, lines 114-124: the first item the username
\* index holds for the name, None when there is none.
get_user_by_username(t, username) ==
    {k \in DOMAIN t : Has(t[k], "username") /\ t[k].username = username}

\* users.is_username_available, lines 138-140
is_username_available(t, username) == get_user_by_username(t, username) = {}

\* users.create_user, lines 53-61
ProfileItem(username) == [username |-> username, vault_setup |-> FALSE]

IdleLogin == [pc |-> "idle", username |-> NoName, resp |-> NoResp]
NoAuth == [n |-> 0, of |-> [u \in Accounts |-> IdleLogin]]

LoginDone(u, resp) ==
    [auth EXCEPT !.of[u] = [pc |-> "idle", username |-> NoName, resp |-> resp]]

\* login lines 166-181 with a username in the payload: normalize, validate,
\* ask whether the name is free.  Lines 188-191 without one: the profile is
\* read for the username.
LoginStart(u) ==
    /\ auth.of[u].pc = "idle"
    /\ auth.n < MaxLogins
    /\ \E typed \in TypedNames \cup {NoName} :
          LET username == normalize_username(typed)
              next ==
                  IF typed = NoName THEN LoginDone(u, Resp(200, "Logged in successfully"))
                  ELSE IF ~validate_username_format(username)
                  THEN LoginDone(u, Resp(400, "Invalid username format"))
                  ELSE IF ~is_username_available(table, username)
                  THEN LoginDone(u, Resp(400, "Username already taken"))
                  ELSE [auth EXCEPT !.of[u].pc = "create",
                                    !.of[u].username = username]
          IN  auth' = [next EXCEPT !.n = @ + 1]
    /\ UNCHANGED <<reqVars, crypt, preview, naming, stats, jwks, verify, trip, route>>

\* login lines 183-186, users.create_user lines 63-71: the put is refused
\* when this account has a profile already, and login turns that into 500.
LoginCreate(u) ==
    /\ auth.of[u].pc = "create"
    /\ IF Exists(ProfileKey(u))
       THEN /\ auth' = LoginDone(u, Resp(500, "Failed to create user"))
            /\ table' = table
       ELSE /\ auth' = LoginDone(u, Resp(200, "Logged in successfully"))
            /\ table' = PutItem(table, ProfileKey(u), ProfileItem(auth.of[u].username))
    /\ UNCHANGED <<blobs, procs, done, nextFile, nextAlbum, nreq, hist, mode,
                   crypt, preview, naming, stats, jwks, verify, trip, route>>

\* ---------------------------------------------- services/cognito.get_jwks
\* line 26
JWKS_TTL == 3600

\* What the JWKS endpoint can answer with (the keys rotate), and no key set.
KeySets == {"keys-1", "keys-2"}
NoKeys == "None"

\* The module's globals _jwks and _jwks_expiry, the clock time.time() reads,
\* and what the last call of get_jwks found and did.
NoCall ==
    [made |-> FALSE, fetched |-> FALSE, failed |-> FALSE, returned |-> NoKeys,
     raised |-> 0, cached |-> NoKeys, expiry |-> 0, now |-> 0]
NoJwks == [on |-> FALSE, cache |-> NoKeys, expiry |-> 0, now |-> 0, ticks |-> 0,
           call |-> NoCall]

\* line 30: if _jwks is None or time.time() > _jwks_expiry
MustFetch(j) == j.cache = NoKeys \/ j.now > j.expiry

\* get_jwks raising whenever the fetch fails.
AfterFailedFetch_NoFallback(j) ==
    [j EXCEPT !.call = [@ EXCEPT !.raised = 503]]

\* lines 36-43: a failed fetch returns the cached copy when there is one,
\* and raises 503 when there is none.
AfterFailedFetch(j) ==
    IF j.cache # NoKeys THEN [j EXCEPT !.call = [@ EXCEPT !.returned = j.cache]]
    ELSE [j EXCEPT !.call = [@ EXCEPT !.raised = 503]]

\* lines 28-44; fetched is what the endpoint answered, NoKeys when the
\* request or raise_for_status raised.
get_jwks(j, fetched) ==
    LET call == [NoCall EXCEPT !.made = TRUE, !.cached = j.cache,
                               !.expiry = j.expiry, !.now = j.now]
    IN  IF ~MustFetch(j)
        THEN [j EXCEPT !.call = [call EXCEPT !.returned = j.cache]]
        ELSE IF fetched = NoKeys
        THEN AfterFailedFetch(
                 [j EXCEPT !.call = [call EXCEPT !.fetched = TRUE, !.failed = TRUE]])
        ELSE [j EXCEPT !.cache = fetched, !.expiry = j.now + JWKS_TTL,
                       !.call = [call EXCEPT !.fetched = TRUE, !.returned = fetched]]

\* A request has its token verified: get_jwks is called.
GetJwks ==
    /\ jwks.on
    /\ \E fetched \in KeySets \cup {NoKeys} :
          /\ ~MustFetch(jwks) => fetched = NoKeys
          /\ jwks' = get_jwks(jwks, fetched)
    /\ UNCHANGED <<reqVars, crypt, preview, naming, stats, auth, verify, trip, route>>

\* lines 46-49: _force_jwks_refresh
ForceJwksRefresh ==
    /\ jwks.on
    /\ jwks.expiry # 0
    /\ jwks' = [jwks EXCEPT !.expiry = 0, !.call = NoCall]
    /\ UNCHANGED <<reqVars, crypt, preview, naming, stats, auth, verify, trip, route>>

\* Time passes: a second, or as long as the keys are kept.
ClockAdvance ==
    /\ jwks.on
    /\ jwks.ticks < MaxTicks
    /\ \E d \in {1, JWKS_TTL} :
          jwks' = [jwks EXCEPT !.now = @ + d, !.ticks = @ + 1, !.call = NoCall]
    /\ UNCHANGED <<reqVars, crypt, preview, naming, stats, auth, verify, trip, route>>

\* ------------------------------------------- services/cognito.verify_token
\* The key ids a fetched key set holds: the pool rotates from one key to
\* the next.
KidsOf(keys) ==
    CASE keys = "keys-1" -> {"kid-1"}
      [] keys = "keys-2" -> {"kid-2"}
      [] OTHER -> {}

\* The kid of a token's header; a header may carry none.
NoKid == "None"
KidInputs == {"kid-1", "kid-2", NoKid}

Verifiers == {"v1", "v2"}

\* One call of verify_token: where it stands, the token's kid, whether
\* jwt.decode and the token_use test accept the token, how often the call
\* forced a refresh and fetched, whether it began on an unexpired cache and
\* what that cache held, the key sets its lookups ran against, and the status it ended with (200 when the
\* payload is returned).
IdleVerify ==
    [pc |-> "idle", kid |-> NoKid, good |-> FALSE, forced |-> 0, fetches |-> 0,
     cached |-> NoKeys, fresh |-> FALSE, first |-> NoKeys, second |-> NoKeys,
     status |-> 0]
NoVerify == [n |-> 0, of |-> [v \in Verifiers |-> IdleVerify]]

\* lines 90-114: the key was found; jwt.decode and the token_use test.
Decode(c) ==
    [c EXCEPT !.pc = "done", !.status = IF c.good THEN 200 ELSE 401]

\* verify_token giving up at the first miss.
AfterLookup_NoRetry(c, keys) ==
    IF c.kid \in KidsOf(keys) THEN Decode(c)
    ELSE [c EXCEPT !.pc = "done", !.status = 401]

\* lines 78-87: the lookup of the kid in the key set; a first miss goes on
\* to the forced refresh, a second one is a 401.
AfterLookup(c, keys) ==
    IF c.kid \in KidsOf(keys) THEN Decode(c)
    ELSE IF c.forced = 0 THEN [c EXCEPT !.pc = "miss"]
    ELSE [c EXCEPT !.pc = "done", !.status = 401]

Fetches(j) == IF j.call.fetched THEN 1 ELSE 0

\* lines 66-79: get_jwks, the header's kid, the first lookup. The 503 of
\* get_jwks passes through (116-118).
VerifyStart(v) ==
    /\ verify.of[v].pc \in {"idle", "done"}
    /\ verify.n < MaxVerifies
    /\ \E kid \in KidInputs, good \in BOOLEAN, fetched \in KeySets \cup {NoKeys} :
          LET j == get_jwks(jwks, fetched)
              c == [IdleVerify EXCEPT !.kid = kid, !.good = good,
                                      !.fetches = Fetches(j),
                                      !.cached = IF MustFetch(jwks) THEN NoKeys
                                                 ELSE jwks.cache,
                                      !.fresh = ~MustFetch(jwks),
                                      !.first = j.call.returned]
          IN  /\ ~MustFetch(jwks) => fetched = NoKeys
              /\ jwks' = [j EXCEPT !.call = NoCall]
              /\ verify' =
                    [n |-> verify.n + 1,
                     of |-> [verify.of EXCEPT ![v] =
                        IF j.call.raised # 0
                        THEN [c EXCEPT !.pc = "done", !.status = j.call.raised]
                        ELSE IF kid = NoKid
                        THEN [c EXCEPT !.pc = "done", !.status = 401]
                        ELSE AfterLookup(c, j.call.returned)]]
    /\ UNCHANGED <<reqVars, crypt, preview, naming, stats, auth, trip, route>>

\* lines 80-87: _force_jwks_refresh, get_jwks again, the second lookup.
VerifyRetry(v) ==
    /\ verify.of[v].pc = "miss"
    /\ \E fetched \in KeySets \cup {NoKeys} :
          LET forced == [jwks EXCEPT !.expiry = 0]
              j == get_jwks(forced, fetched)
              c == [verify.of[v] EXCEPT !.forced = @ + 1,
                                        !.fetches = @ + Fetches(j),
                                        !.second = j.call.returned]
          IN  /\ ~MustFetch(forced) => fetched = NoKeys
              /\ jwks' = [j EXCEPT !.call = NoCall]
              /\ verify' = [verify EXCEPT !.of[v] =
                    IF j.call.raised # 0
                    THEN [c EXCEPT !.pc = "done", !.status = j.call.raised]
                    ELSE AfterLookup(c, j.call.returned)]
    /\ UNCHANGED <<reqVars, crypt, preview, naming, stats, auth, trip, route>>

\* ------------------------------ a payload from upload_file to download_file
\* No payload is on its way.  blob is what the object store holds under the
\* file's key and item the file's record (none: <<>> and EmptyItem); pc is
\* "uploaded" when upload_file has just answered, "kept" once the file has
\* been soft-deleted, restored or permanently deleted since.
NoTrip ==
    [pc |-> "none", user_id |-> "", file_bytes |-> <<>>, blob |-> <<>>,
     item |-> EmptyItem, resp |-> NoResp, body |-> <<>>]

\* files.upload_file for a caller with a username and a file of an allowed
\* type, no store call raising: the empty-file check (line 98), then
\* s3.upload_file, which stores encrypt_file's bytes and returns its hash
\* (s3.py 36-57), then dynamo.create_file with file_size = len(file_bytes)
\* and that hash (files.py 138-150, dynamo.py 105-118).
TripUpload ==
    /\ trip.pc = "request"
    /\ \E nonce \in NonceInputs :
          LET out == encrypt_file(trip.file_bytes, trip.user_id, nonce)
              s3_key == make_s3_key("alice", FileId(1), "name") IN
          trip' =
            IF Len(trip.file_bytes) = 0
            THEN [trip EXCEPT !.pc = "rejected", !.resp = Resp(400, "Empty file")]
            ELSE [trip EXCEPT
                    !.pc = "uploaded",
                    !.blob = out[1],
                    !.item = [file_size |-> Len(trip.file_bytes),
                              file_hash |-> out[2]] @@ FileItem(s3_key, "image"),
                    !.resp = Resp(200, "File uploaded successfully")]
    /\ UNCHANGED <<reqVars, crypt, preview, naming, stats, auth, jwks, verify, route>>

\* files.delete_file and files.restore_file on the uploaded file: the flag
\* is set or cleared.
TripFlag ==
    /\ trip.pc \in {"uploaded", "kept", "downloaded"}
    /\ trip.item # EmptyItem
    /\ \E flag \in BOOLEAN :
          /\ trip.item.is_deleted # flag
          /\ trip' = [trip EXCEPT !.pc = "kept", !.item.is_deleted = flag,
                                  !.resp = NoResp, !.body = <<>>]
    /\ UNCHANGED <<reqVars, crypt, preview, naming, stats, auth, jwks, verify, route>>

\* files.permanent_delete on the uploaded file: the blob, then the record.
TripPermanentDelete ==
    /\ trip.pc \in {"uploaded", "kept"}
    /\ trip.item # EmptyItem
    /\ trip' = [trip EXCEPT !.pc = "kept", !.blob = <<>>, !.item = EmptyItem,
                            !.resp = NoResp]
    /\ UNCHANGED <<reqVars, crypt, preview, naming, stats, auth, jwks, verify, route>>

\* files.download_file by the uploader: get_file (404 without a record),
\* s3.download_file, decrypt_file with the caller's id (lines 320-337), and
\* the whole plaintext as the body of a 200 (343-350).
TripDownload ==
    /\ trip.pc \in {"uploaded", "kept"}
    /\ LET decrypted == decrypt_file(trip.blob, trip.user_id) IN
       trip' =
         IF trip.item = EmptyItem
         THEN [trip EXCEPT !.pc = "downloaded", !.resp = Resp(404, "File not found")]
         ELSE IF ~decrypted.ok
         THEN [trip EXCEPT !.pc = "downloaded",
                           !.resp = Resp(500, "Failed to decrypt file")]
         ELSE [trip EXCEPT !.pc = "downloaded", !.resp = Resp(200, ""),
                           !.body = decrypted.bytes]
    /\ UNCHANGED <<reqVars, crypt, preview, naming, stats, auth, jwks, verify, route>>

\* --------------------------------------- recycle_bin.empty_recycle_bin
\* What get_deleted_files hands the handler: the soft-deleted records of the
\* caller as they are when the bin is listed.
Listed(t, user_id) ==
    {[file_id |-> k[2], item |-> t[k]] : k \in get_deleted_files(t, user_id)}

\* empty_recycle_bin answering 200 whatever failed.
EmptyBinAnswer_IgnoresFailed(r) ==
    [Finish(r, 200, "Recycle bin emptied") EXCEPT
        !.body = <<Cardinality(r.found)>>]

\* lines 119-129: a 500 when any file failed, else a 200 with
\* deleted_count = len(files)
EmptyBinAnswer(r) ==
    IF r.failed # {}
    THEN Finish(r, 500, "Failed to delete file(s). Partially emptied recycle bin.")
    ELSE [Finish(r, 200, "Recycle bin emptied") EXCEPT
             !.body = <<Cardinality(r.found)>>]

\* The loop of lines 112-117 goes on to the next file, or ends.
EmptyBinNext(r) == IF r.todo = {} THEN EmptyBinAnswer(r) ELSE r

\* lines 100-108: the bin is listed; an empty one is answered at once
EmptyBinStart(p) ==
    /\ CanStart(p)
    /\ \E res \in Outcomes :
          LET r == Log(NewReq("empty_bin"), "db.query", res)
              files == Listed(table, UserId) IN
          Started(p, IF res = "fail"
                     THEN Finish(r, 500, "Failed to fetch recycle bin")
                     ELSE IF files = {}
                     THEN [Finish(r, 200, "Recycle bin is already empty")
                              EXCEPT !.body = <<0>>]
                     ELSE [r EXCEPT !.pc = "eb_s3", !.found = files,
                                    !.todo = files])
    /\ UNCHANGED <<table, blobs, nextFile, nextAlbum, mode, pureVars>>

\* line 114: s3.delete_file(file["s3_key"]) for the next file of the loop;
\* an exception, the KeyError of a record without s3_key included, puts
\* the file on the failed list and skips its record.
EmptyBinBlob(p) ==
    /\ procs[p].pc = "eb_s3"
    /\ \E f \in procs[p].todo, res \in Outcomes :
          LET keyed == Has(f.item, "s3_key")
              ok == keyed /\ res = "ok"
              r == IF keyed THEN Log(procs[p], "s3.delete", res) ELSE procs[p] IN
          /\ Stepped(p, IF ok
                        THEN [r EXCEPT !.pc = "eb_db", !.file_id = f.file_id]
                        ELSE EmptyBinNext([r EXCEPT !.todo = @ \ {f},
                                                    !.failed = @ \cup {f.file_id}]))
          /\ blobs' = IF ok THEN blobs \ {f.item.s3_key} ELSE blobs
    /\ UNCHANGED <<table, nextFile, nextAlbum, mode, pureVars>>

\* line 115: dynamo.delete_file for the same file; its 404 and its 500 are
\* exceptions like any other.
EmptyBinRecord(p) ==
    /\ procs[p].pc = "eb_db"
    /\ \E res \in Outcomes :
          LET key == FileKey(UserId, procs[p].file_id)
              resp == dynamo_delete_file(res, key)
              f == CHOOSE x \in procs[p].todo : x.file_id = procs[p].file_id
              r == [Log(procs[p], "db.delete", CondRes(res, key))
                       EXCEPT !.pc = "eb_s3", !.todo = @ \ {f}, !.file_id = ""] IN
          /\ Stepped(p, EmptyBinNext(
                 IF resp.status = 200 THEN r
                 ELSE [r EXCEPT !.failed = @ \cup {f.file_id}]))
          /\ table' = IF resp.status = 200 THEN DeleteItem(table, key) ELSE table
    /\ UNCHANGED <<blobs, nextFile, nextAlbum, mode, pureVars>>

\* --------------------------------------- the routes of routers/recycle_bin
\* A path below the router's prefix is its segments, a segment its
\* characters.  The segments a request can carry: "empty", "restore", a
\* uuid4 in the form str() gives it, and the same in upper case.
Hex == {"0", "1", "2", "3", "4", "5", "6", "7", "8", "9",
        "a", "b", "c", "d", "e", "f"}
UuidLen == 36
Hyphens == {9, 14, 19, 24}
SomeUuid == [i \in 1..UuidLen |-> IF i \in Hyphens THEN "-" ELSE "a"]
UpperUuid == [i \in 1..UuidLen |-> IF i \in Hyphens THEN "-" ELSE "A"]
SegmentInputs ==
    {<<"e", "m", "p", "t", "y">>, <<"r", "e", "s", "t", "o", "r", "e">>,
     SomeUuid, UpperUuid}
PathInputs == UNION {[1..n -> SegmentInputs] : n \in 0..MaxSegments}
MethodInputs == {"GET", "POST", "DELETE"}

\* lines 10-12: FILE_ID_RE.match
FILE_ID_RE(text) ==
    /\ Len(text) = UuidLen
    /\ \A i \in 1..UuidLen :
          IF i \in Hyphens THEN text[i] = "-" ELSE text[i] \in Hex

\* A path parameter, which takes any one segment.
Param == <<"{", "}">>

\* The router's routes in the order the decorators add them (lines 22, 35,
\* 61, 96): method, path, endpoint.
RecycleBinRoutes ==
    << [method |-> "GET", path |-> <<>>, endpoint |-> "list_recycle_bin"],
       [method |-> "POST", path |-> <<Param, <<"r", "e", "s", "t", "o", "r", "e">>>>,
        endpoint |-> "restore_file"],
       [method |-> "DELETE", path |-> <<Param>>, endpoint |-> "permanent_delete"],
       [method |-> "DELETE", path |-> <<<<"e", "m", "p", "t", "y">>>>,
        endpoint |-> "empty_recycle_bin"] >>

\* A route's path matches a request's: as many segments, each one equal or
\* taken by a parameter.
PathMatches(pattern, path) ==
    /\ Len(pattern) = Len(path)
    /\ \A i \in 1..Len(path) : pattern[i] = Param \/ pattern[i] = path[i]

NoEndpoint == "none"

\* The framework's routing: the first route, in order, whose path and
\* method both match gets the request; 405 when only paths match, 404 when
\* none does.
Dispatch(routes, method, path) ==
    LET full == {i \in 1..Len(routes) :
                    PathMatches(routes[i].path, path) /\ routes[i].method = method}
        partial == {i \in 1..Len(routes) : PathMatches(routes[i].path, path)}
        first == CHOOSE i \in full : \A j \in full : i <= j
    IN  IF full # {}
        THEN [endpoint |-> routes[first].endpoint, status |-> 0,
              detail |-> ""]
        ELSE IF partial # {}
        THEN [endpoint |-> NoEndpoint, status |-> 405, detail |-> "Method Not Allowed"]
        ELSE [endpoint |-> NoEndpoint, status |-> 404, detail |-> "Not Found"]

\* The value the file_id parameter of the endpoint takes.
FileIdParam(path) == path[1]

\* lines 14-19: validated_file_id, the dependency of the endpoints that
\* take a file_id; status 0 when the endpoint's body is entered.
validated_file_id(to, path) ==
    IF to.endpoint \in {"restore_file", "permanent_delete"}
       /\ ~FILE_ID_RE(FileIdParam(path))
    THEN [to EXCEPT !.status = 400, !.detail = "Invalid file ID format"]
    ELSE to

NoRoute ==
    [pc |-> "none", method |-> "", path |-> <<>>, endpoint |-> NoEndpoint,
     status |-> 0, detail |-> ""]

\* The request is routed, and the endpoint's dependencies run.
RouteRequest ==
    /\ route.pc = "request"
    /\ LET to == validated_file_id(
                     Dispatch(RecycleBinRoutes, route.method, route.path),
                     route.path) IN
       route' = [route EXCEPT !.pc = "routed", !.endpoint = to.endpoint,
                              !.status = to.status, !.detail = to.detail]
    /\ UNCHANGED <<reqVars, crypt, preview, naming, stats, auth, jwks, verify, trip>>

\* ------------------------------------------------------------ specification
InitStores ==
    /\ table = [k \in {} |-> EmptyItem]
    /\ blobs = {}
    /\ procs = [p \in Procs |-> IdleReq]
    /\ done = IdleReq
    /\ nextFile = 1
    /\ nextAlbum = 1
    /\ nreq = 0
    /\ hist = [a \in AlbumIds |-> NoHist]
    /\ crypt = NoCrypt
    /\ preview = NoPreview
    /\ naming = NoNaming
    /\ stats = NoStats
    /\ auth = NoAuth
    /\ jwks = NoJwks
    /\ verify = NoVerify
    /\ trip = NoTrip
    /\ route = NoRoute

\* Requests interleave at their store calls, and any store call may raise.
Init ==
    /\ InitStores
    /\ mode = [faults |-> TRUE, conc |-> TRUE, track |-> FALSE, last |-> FALSE,
               budget |-> MaxReqs]

\* Requests interleave at their store calls, and no store call raises.
InitNoFail ==
    /\ InitStores
    /\ mode = [faults |-> FALSE, conc |-> TRUE, track |-> FALSE, last |-> FALSE,
               budget |-> MaxReqsNoFail]

\* One request at a time, and no store call raises.
InitSeq ==
    /\ InitStores
    /\ mode = [faults |-> FALSE, conc |-> FALSE, track |-> TRUE, last |-> FALSE,
               budget |-> MaxReqsSeq]

\* One request at a time, and any store call may raise.
InitSeqFail ==
    /\ InitStores
    /\ mode = [faults |-> TRUE, conc |-> FALSE, track |-> TRUE, last |-> FALSE,
               budget |-> MaxReqsSeqFail]

\* One request at a time, any store call may raise, and each request is
\* started knowing what the add or remove before it did.
InitRetry ==
    /\ InitStores
    /\ mode = [faults |-> TRUE, conc |-> FALSE, track |-> FALSE, last |-> TRUE,
               budget |-> MaxReqsSeqFail]

\* Uploads, permanent deletes, previews and downloads interleave at their
\* store calls, and any store call may raise.
InitRead ==
    /\ InitStores
    /\ mode = [faults |-> TRUE, conc |-> TRUE, track |-> FALSE, last |-> FALSE,
               budget |-> MaxReqsRead]

\* What the other account has stored: a file in an album of its own.
OtherTable ==
    (FileKey(OtherUser, OtherFileId)
        :> [FileItem(make_s3_key("bob", OtherFileId, "name"), "image")
               EXCEPT !.album_id = OtherAlbumId])
    @@ (AlbumKey(OtherUser, OtherAlbumId)
        :> [file_count |-> 1, cover_url |-> NoCover])
OtherBlobs == {make_s3_key("bob", OtherFileId, "name")}

\* One request at a time from the caller, any store call may raise, and
\* the stores hold the other account's file and album from the start.
InitIso ==
    /\ table = OtherTable
    /\ blobs = OtherBlobs
    /\ procs = [p \in Procs |-> IdleReq]
    /\ done = IdleReq
    /\ nextFile = 1
    /\ nextAlbum = 1
    /\ nreq = 0
    /\ hist = [a \in AlbumIds |-> NoHist]
    /\ mode = [faults |-> TRUE, conc |-> FALSE, track |-> FALSE, last |-> FALSE,
               budget |-> MaxReqsIso]
    /\ crypt = NoCrypt
    /\ preview = NoPreview
    /\ naming = NoNaming
    /\ stats = NoStats
    /\ auth = NoAuth
    /\ jwks = NoJwks
    /\ verify = NoVerify
    /\ trip = NoTrip
    /\ route = NoRoute

\* The caller has uploaded every file and created every album; the requests
\* to come are add_file_to_album, interleaved, and no store call raises.
AddTable ==
    [k \in {FileKey(UserId, f) : f \in FileIds} \cup
            {AlbumKey(UserId, a) : a \in AlbumIds} |->
        IF k[1] = UserId
        THEN FileItem(make_s3_key("alice", k[2], "name"), "image")
        ELSE [file_count |-> 0, cover_url |-> NoCover]]

InitAdd ==
    /\ table = AddTable
    /\ blobs = {make_s3_key("alice", f, "name") : f \in FileIds}
    /\ procs = [p \in Procs |-> IdleReq]
    /\ done = IdleReq
    /\ nextFile = MaxFiles + 1
    /\ nextAlbum = MaxAlbums + 1
    /\ nreq = 0
    /\ hist = [a \in AlbumIds |-> NoHist]
    /\ mode = [faults |-> FALSE, conc |-> TRUE, track |-> FALSE, last |-> FALSE,
               budget |-> MaxAdds]
    /\ crypt = NoCrypt
    /\ preview = NoPreview
    /\ naming = NoNaming
    /\ stats = NoStats
    /\ auth = NoAuth
    /\ jwks = NoJwks
    /\ verify = NoVerify
    /\ trip = NoTrip
    /\ route = NoRoute

\* The caller has uploaded every file and created every album, and has added
\* the first file to the first album; the requests to come are soft deletes
\* and restores, interleaved, and any store call may raise.
BinTable ==
    [k \in DOMAIN AddTable |->
        IF k = FileKey(UserId, FileId(1))
        THEN [AddTable[k] EXCEPT !.album_id = AlbumId(1)]
        ELSE IF k = AlbumKey(UserId, AlbumId(1))
        THEN [AddTable[k] EXCEPT !.file_count = 1]
        ELSE AddTable[k]]
BinBlobs == {make_s3_key("alice", f, "name") : f \in FileIds}

InitBin ==
    /\ table = BinTable
    /\ blobs = BinBlobs
    /\ procs = [p \in Procs |-> IdleReq]
    /\ done = IdleReq
    /\ nextFile = MaxFiles + 1
    /\ nextAlbum = MaxAlbums + 1
    /\ nreq = 0
    /\ hist = [a \in AlbumIds |-> NoHist]
    /\ mode = [faults |-> TRUE, conc |-> TRUE, track |-> FALSE, last |-> FALSE,
               budget |-> MaxReqsBin]
    /\ crypt = NoCrypt
    /\ preview = NoPreview
    /\ naming = NoNaming
    /\ stats = NoStats
    /\ auth = NoAuth
    /\ jwks = NoJwks
    /\ verify = NoVerify
    /\ trip = NoTrip
    /\ route = NoRoute

\* The caller has uploaded every file; the requests to come are renames,
\* reads of a file's details and downloads, one at a time, and no store
\* call raises.
InitRename ==
    /\ table = AddTable
    /\ blobs = BinBlobs
    /\ procs = [p \in Procs |-> IdleReq]
    /\ done = IdleReq
    /\ nextFile = MaxFiles + 1
    /\ nextAlbum = MaxAlbums + 1
    /\ nreq = 0
    /\ hist = [a \in AlbumIds |-> NoHist]
    /\ mode = [faults |-> FALSE, conc |-> FALSE, track |-> FALSE, last |-> FALSE,
               budget |-> MaxReqsRename]
    /\ crypt = NoCrypt
    /\ preview = NoPreview
    /\ naming = NoNaming
    /\ stats = NoStats
    /\ auth = NoAuth
    /\ jwks = NoJwks
    /\ verify = NoVerify
    /\ trip = NoTrip
    /\ route = NoRoute

\* The caller has uploaded every file; the requests to come are soft
\* deletes, restores and calls of empty_recycle_bin, interleaved, and any
\* store call may raise.
InitEmpty ==
    /\ table = BinTable
    /\ blobs = BinBlobs
    /\ procs = [p \in Procs |-> IdleReq]
    /\ done = IdleReq
    /\ nextFile = MaxFiles + 1
    /\ nextAlbum = MaxAlbums + 1
    /\ nreq = 0
    /\ hist = [a \in AlbumIds |-> NoHist]
    /\ mode = [faults |-> TRUE, conc |-> TRUE, track |-> FALSE, last |-> FALSE,
               budget |-> MaxReqsEmpty]
    /\ crypt = NoCrypt
    /\ preview = NoPreview
    /\ naming = NoNaming
    /\ stats = NoStats
    /\ auth = NoAuth
    /\ jwks = NoJwks
    /\ verify = NoVerify
    /\ trip = NoTrip
    /\ route = NoRoute

\* No request has been made and none will be.
NoRequests ==
    /\ table = [k \in {} |-> EmptyItem]
    /\ blobs = {}
    /\ procs = [p \in Procs |-> IdleReq]
    /\ done = IdleReq
    /\ nextFile = 1
    /\ nextAlbum = 1
    /\ nreq = 0
    /\ hist = [a \in AlbumIds |-> NoHist]
    /\ mode = [faults |-> FALSE, conc |-> FALSE, track |-> FALSE, last |-> FALSE, budget |-> 0]

\* A file and its owner, about to go through FileEncryption; no requests.
InitCipher ==
    /\ NoRequests
    /\ preview = NoPreview
    /\ naming = NoNaming
    /\ stats = NoStats
    /\ auth = NoAuth
    /\ jwks = NoJwks
    /\ verify = NoVerify
    /\ trip = NoTrip
    /\ route = NoRoute
    /\ \E file_bytes \in FileBytesInputs, user_id \in UserIdInputs :
          crypt = [NoCrypt EXCEPT !.pc = "plain", !.file_bytes = file_bytes,
                                  !.user_id = user_id]

\* A decrypted object and a Range header, about to be answered; no requests.
InitPreview ==
    /\ NoRequests
    /\ crypt = NoCrypt
    /\ naming = NoNaming
    /\ stats = NoStats
    /\ auth = NoAuth
    /\ jwks = NoJwks
    /\ verify = NoVerify
    /\ trip = NoTrip
    /\ route = NoRoute
    /\ \E decrypted_bytes \in ObjectInputs, range \in RangeInputs :
          preview = [NoPreview EXCEPT !.pc = "decrypted",
                                      !.decrypted_bytes = decrypted_bytes,
                                      !.range = range]

\* A file name, about to be sanitized; no requests.
InitSanitize ==
    /\ NoRequests
    /\ crypt = NoCrypt
    /\ preview = NoPreview
    /\ stats = NoStats
    /\ auth = NoAuth
    /\ jwks = NoJwks
    /\ verify = NoVerify
    /\ trip = NoTrip
    /\ route = NoRoute
    /\ \E name \in NameInputs :
          naming = [NoNaming EXCEPT !.pc = "given", !.name = name]

\* A table, and a caller about to ask for their statistics; no requests.
InitStats ==
    /\ blobs = {}
    /\ procs = [p \in Procs |-> IdleReq]
    /\ done = IdleReq
    /\ nextFile = 1
    /\ nextAlbum = 1
    /\ nreq = 0
    /\ hist = [a \in AlbumIds |-> NoHist]
    /\ mode = [faults |-> FALSE, conc |-> FALSE, track |-> FALSE, last |-> FALSE, budget |-> 0]
    /\ crypt = NoCrypt
    /\ preview = NoPreview
    /\ naming = NoNaming
    /\ auth = NoAuth
    /\ jwks = NoJwks
    /\ verify = NoVerify
    /\ trip = NoTrip
    /\ route = NoRoute
    /\ \E given \in StatsInputs :
          /\ table = StatsTable(given)
          /\ stats = [NoStats EXCEPT !.pc = "asked", !.given = given,
                                     !.user_id = UserId]

\* No profile yet; the accounts log in, their logins interleaving at the
\* table calls.
InitLogin ==
    /\ NoRequests
    /\ crypt = NoCrypt
    /\ preview = NoPreview
    /\ naming = NoNaming
    /\ stats = NoStats
    /\ auth = NoAuth
    /\ jwks = NoJwks
    /\ verify = NoVerify
    /\ trip = NoTrip
    /\ route = NoRoute

\* The module has just been imported: nothing cached, the clock somewhere
\* after the epoch.
InitJwks ==
    /\ NoRequests
    /\ crypt = NoCrypt
    /\ preview = NoPreview
    /\ naming = NoNaming
    /\ stats = NoStats
    /\ auth = NoAuth
    /\ jwks = [NoJwks EXCEPT !.on = TRUE, !.now = 1]
    /\ verify = NoVerify
    /\ trip = NoTrip
    /\ route = NoRoute

\* A payload and its uploader, about to be uploaded; no requests.
InitTrip ==
    /\ NoRequests
    /\ crypt = NoCrypt
    /\ preview = NoPreview
    /\ naming = NoNaming
    /\ stats = NoStats
    /\ auth = NoAuth
    /\ jwks = NoJwks
    /\ verify = NoVerify
    /\ route = NoRoute
    /\ \E file_bytes \in FileBytesInputs, user_id \in UserIdInputs :
          trip = [NoTrip EXCEPT !.pc = "request", !.file_bytes = file_bytes,
                                !.user_id = user_id]

\* A request to a path below /recycle-bin, about to be routed; no requests
\* are in the handlers.
InitRoute ==
    /\ NoRequests
    /\ crypt = NoCrypt
    /\ preview = NoPreview
    /\ naming = NoNaming
    /\ stats = NoStats
    /\ auth = NoAuth
    /\ jwks = NoJwks
    /\ verify = NoVerify
    /\ trip = NoTrip
    /\ \E method \in MethodInputs, path \in PathInputs :
          route = [NoRoute EXCEPT !.pc = "request", !.method = method,
                                 !.path = path]

\* As InitJwks; the calls of get_jwks are those verify_token makes.
InitVerify == InitJwks

\* Every step a request takes when no store call raises.
Handlers(p) ==
        \/ UploadStart(p)
        \/ UploadPut(p)
        \/ UploadMeta(p)
        \/ SoftDeleteStart(p)
        \/ SoftDeleteUpdate(p)
        \/ RestoreStart(p)
        \/ RestoreUpdate(p)
        \/ RenameStart(p)
        \/ RenameUpdate(p)
        \/ BinRestoreStart(p)
        \/ BinRestoreUpdate(p)
        \/ PermanentDeleteStart(p)
        \/ PermanentDeleteBlob(p)
        \/ PermanentDeleteRecord(p)
        \/ BinPermanentDeleteStart(p)
        \/ BinPermanentDeleteBlob(p)
        \/ BinPermanentDeleteRecord(p)
        \/ CreateAlbum(p)
        \/ DeleteAlbumStart(p)
        \/ DeleteAlbumQuery(p)
        \/ DeleteAlbumUnlink(p)
        \/ DeleteAlbumRecord(p)
        \/ AddFileStart(p)
        \/ AddFileGet(p)
        \/ AddFileLink(p)
        \/ AddFileAlbum(p)
        \/ AddFileCount(p)
        \/ RemoveFileStart(p)
        \/ RemoveFileGet(p)
        \/ RemoveFileUnlink(p)
        \/ RemoveFileCount(p)

Next == \E p \in Procs : Handlers(p) \/ UploadCompensate(p)

NextNoFail == \E p \in Procs : Handlers(p)

Spec == Init /\ [][Next]_vars

SpecNoFail == InitNoFail /\ [][NextNoFail]_vars

SpecSeq == InitSeq /\ [][NextNoFail]_vars

SpecSeqFail == InitSeqFail /\ [][Next]_vars

SpecRetry == InitRetry /\ [][Next]_vars

ReadHandlers(p) ==
        \/ UploadStart(p)
        \/ UploadPut(p)
        \/ UploadMeta(p)
        \/ UploadCompensate(p)
        \/ PermanentDeleteStart(p)
        \/ PermanentDeleteBlob(p)
        \/ PermanentDeleteRecord(p)
        \/ PreviewStart(p)
        \/ DownloadStart(p)
        \/ RetrieveFetch(p)

NextRead == \E p \in Procs : ReadHandlers(p)

SpecRead == InitRead /\ [][NextRead]_vars

NextIso ==
    \E p \in Procs :
        \/ Handlers(p)
        \/ UploadCompensate(p)
        \/ PreviewStart(p)
        \/ DownloadStart(p)
        \/ RetrieveFetch(p)

SpecIso == InitIso /\ [][NextIso]_vars

NextAdd ==
    \E p \in Procs :
        \/ AddFileStart(p)
        \/ AddFileGet(p)
        \/ AddFileLink(p)
        \/ AddFileAlbum(p)
        \/ AddFileCount(p)

SpecAdd == InitAdd /\ [][NextAdd]_vars

NextBin ==
    \E p \in Procs :
        \/ SoftDeleteStart(p)
        \/ SoftDeleteUpdate(p)
        \/ RestoreStart(p)
        \/ RestoreUpdate(p)
        \/ BinRestoreStart(p)
        \/ BinRestoreUpdate(p)

SpecBin == InitBin /\ [][NextBin]_vars

NextRename ==
    \E p \in Procs :
        \/ RenameStart(p)
        \/ RenameUpdate(p)
        \/ GetFileDetail(p)
        \/ DownloadStart(p)
        \/ RetrieveFetch(p)

SpecRename == InitRename /\ [][NextRename]_vars

NextTrip == TripUpload \/ TripFlag \/ TripPermanentDelete \/ TripDownload

SpecTrip == InitTrip /\ [][NextTrip]_vars

NextEmpty ==
    \E p \in Procs :
        \/ SoftDeleteStart(p)
        \/ SoftDeleteUpdate(p)
        \/ BinRestoreStart(p)
        \/ BinRestoreUpdate(p)
        \/ EmptyBinStart(p)
        \/ EmptyBinBlob(p)
        \/ EmptyBinRecord(p)

SpecEmpty == InitEmpty /\ [][NextEmpty]_vars

NextRoute == RouteRequest

SpecRoute == InitRoute /\ [][NextRoute]_vars

NextCipher == EncryptFile \/ TamperFlip \/ TamperCut \/ DecryptFile

SpecCipher == InitCipher /\ [][NextCipher]_vars

NextPreview == PreviewRespond

NextSanitize == SanitizeName

NextStats == GetStorageStats

NextJwks == GetJwks \/ ForceJwksRefresh \/ ClockAdvance

SpecJwks == InitJwks /\ [][NextJwks]_vars

NextVerify ==
    \/ \E v \in Verifiers : VerifyStart(v) \/ VerifyRetry(v)
    \/ ClockAdvance

SpecVerify == InitVerify /\ [][NextVerify]_vars

NextLogin == \E u \in Accounts : LoginStart(u) \/ LoginCreate(u)

SpecLogin == InitLogin /\ [][NextLogin]_vars

SpecStats == InitStats /\ [][NextStats]_vars

SpecSanitize == InitSanitize /\ [][NextSanitize]_vars

SpecPreview == InitPreview /\ [][NextPreview]_vars

\* ------------------------------------------------------------------ claims
Issued(r, call) == \E c \in Range(r.calls) : c[1] = call
Made(r, call, res) == <<call, res>> \in Range(r.calls)
Failed(r) == Len(r.resp) = 1 /\ r.resp[1].status >= 400
ClientError(r) == Len(r.resp) = 1 /\ r.resp[1].status \in 400..499
Requests == {done} \cup {procs[p] : p \in Procs}

\* An upload whose metadata write raised after its blob write succeeded has
\* just returned.
UploadMetaFailed ==
    /\ done.op = "upload"
    /\ Made(done, "s3.put", "ok")
    /\ Made(done, "db.put", "fail")

\* C1, as stated: whenever upload's metadata write fails after the blob
\* write succeeded, the handler issues a delete of the blob before it
\* returns, and then the object store holds no blob under the upload's key,
\* the table holds no record for the generated file id, and the client got
\* exactly one response, an error.
C1_UploadAtomicity_Original ==
    UploadMetaFailed =>
        /\ Issued(done, "s3.delete")
        /\ done.s3_key \notin blobs
        /\ ~Exists(FileKey(UserId, done.file_id))
        /\ Failed(done)

\* C1, amended: whenever upload's metadata write fails after the blob write
\* succeeded, the handler issues a delete of the blob before it returns;
\* the table holds no record for the generated file id and the client got
\* exactly one response, an error; and the object store holds no blob under
\* the upload's key unless that delete itself raised.
C1_UploadAtomicity ==
    UploadMetaFailed =>
        /\ Issued(done, "s3.delete")
        /\ Made(done, "s3.delete", "ok") => done.s3_key \notin blobs
        /\ ~Exists(FileKey(UserId, done.file_id))
        /\ Failed(done)

C1_Witness ==
    /\ UploadMetaFailed
    /\ Made(done, "s3.delete", "ok")
    /\ done.s3_key \notin blobs

\* C2, as stated: in every reachable state every file record has a storage
\* key and that key names a blob present in the object store.
C2_NoRecordWithoutBlob ==
    \A f \in FileIds :
        Exists(FileKey(UserId, f)) =>
            /\ Has(table[FileKey(UserId, f)], "s3_key")
            /\ table[FileKey(UserId, f)].s3_key \in blobs

IsPermanentDelete(r) == r.op \in {"permanent_delete", "bin_permanent_delete"}

\* Every db.delete of the request comes after a successful s3.delete.
BlobBeforeRecord(r) ==
    \A i \in DOMAIN r.calls :
        r.calls[i][1] = "db.delete" =>
            \E j \in 1..(i - 1) : r.calls[j] = <<"s3.delete", "ok">>

C3_Ordering ==
    \A r \in Requests :
        IsPermanentDelete(r) =>
            /\ BlobBeforeRecord(r)
            /\ Made(r, "s3.delete", "fail") =>
                  /\ ~Issued(r, "db.delete")
                  /\ r = done
                  /\ Failed(r)

\* The step in which a permanent delete's blob delete raises leaves every
\* record of the table as it was.
C3_RecordKept ==
    (IsPermanentDelete(done') /\ Made(done', "s3.delete", "fail"))
        => table' = table

\* C3: in both permanent-delete entry points the blob delete comes before
\* the metadata delete; if the blob delete fails no metadata delete is
\* issued, the table is left as it was (the file's record with every
\* attribute), and the client receives an error.
C3_PermanentDeleteOrdering == [](C3_Ordering) /\ [][C3_RecordKept]_vars

C3_Witness ==
    /\ done.op = "bin_permanent_delete"
    /\ Made(done, "s3.delete", "fail")
    /\ Exists(FileKey(UserId, done.file_id))
    /\ IsDeleted(table[FileKey(UserId, done.file_id)])

\* The blob is written first, the record only after that write succeeded,
\* and a failed blob write ends the request with an error.
UploadOrder(r) ==
    /\ \A i \in DOMAIN r.calls :
          r.calls[i][1] = "db.put" => i > 1 /\ r.calls[i - 1] = <<"s3.put", "ok">>
    /\ Made(r, "s3.put", "fail") =>
          /\ r.calls = << <<"s3.put", "fail">> >>
          /\ r = done
          /\ Failed(r)
    \* one file id: the one in the key is the one of the request
    /\ r.s3_key # NoKey => r.s3_key[3] = r.file_id

C4_Order ==
    /\ \A r \in Requests : r.op = "upload" => UploadOrder(r)
    \* the record of a file id holds the key made from that file id, and is
    \* there only if the blob was written
    /\ \A f \in FileIds :
          (Exists(FileKey(UserId, f)) /\ Has(table[FileKey(UserId, f)], "s3_key"))
              => table[FileKey(UserId, f)].s3_key[3] = f
    /\ (done.op = "upload" /\ Made(done, "db.put", "ok")) =>
          /\ Exists(FileKey(UserId, done.file_id))
          /\ table[FileKey(UserId, done.file_id)].s3_key = done.s3_key
          /\ done.s3_key \in blobs

\* The step in which upload's blob write raises leaves the table as it was.
C4_TableKept ==
    (done'.op = "upload" /\ Made(done', "s3.put", "fail")) => table' = table

\* C4: upload draws the file id once, writes the blob first and the record
\* only after the blob write succeeded, with the same file id in the
\* storage key and in the record; if the blob write fails no metadata write
\* is issued, the table is unchanged, and the client receives an error.
C4_UploadWriteOrder == [](C4_Order) /\ [][C4_TableKept]_vars

C4_Witness ==
    /\ done.op = "upload"
    /\ done.calls = << <<"s3.put", "fail">> >>
    /\ \E f \in FileIds : Exists(FileKey(UserId, f))

\* C5: when upload's metadata write fails and the compensating blob delete
\* fails too, the upload still answers with the metadata-save error, once;
\* what is left is the blob, with no record for the file id.
C5_CompensationFailureSwallowed ==
    (UploadMetaFailed /\ Made(done, "s3.delete", "fail")) =>
        /\ done.resp = << Resp(500, "Failed to save file metadata") >>
        /\ done.s3_key \in blobs
        /\ ~Exists(FileKey(UserId, done.file_id))

C5_Witness ==
    /\ UploadMetaFailed
    /\ Made(done, "s3.delete", "fail")
    /\ done.s3_key \in blobs

\* The uploads the claim names: no username, an empty payload, a payload
\* over 100 MiB, a MIME type outside the allow-list.
BadUpload(args) ==
    \/ args[1] = NoUsername
    \/ args[2] = 0
    \/ args[2] > 104857600
    \/ args[3] \notin {"image/jpeg", "image/png", "image/gif", "image/webp",
                       "image/heic", "video/mp4", "video/quicktime",
                       "video/x-msvideo", "video/x-matroska", "video/webm",
                       "application/pdf", "application/msword",
                       "application/vnd.openxmlformats-officedocument.wordprocessingml.document",
                       "text/plain"}

C6_Rejected ==
    \A r \in Requests :
        (r.op = "upload" /\ BadUpload(r.args)) =>
            /\ r = done
            /\ ClientError(r)
            /\ r.calls = <<>>

C6_StoresKept ==
    (done'.op = "upload" /\ BadUpload(done'.args))
        => (table' = table /\ blobs' = blobs)

\* C6: an upload with an empty payload, a payload over 100 MiB, a MIME type
\* outside the allow-list or no username is rejected with a client error
\* before any store call, and both stores are left as they were.
C6_UploadValidationFirst == [](C6_Rejected) /\ [][C6_StoresKept]_vars

C6_Witness ==
    /\ done.op = "upload"
    /\ done.args = <<"alice", 104857601, "image/png">>
    /\ done.resp = << Resp(413, "File too large") >>
    /\ \E f \in FileIds : Exists(FileKey(UserId, f))

\* No request is in flight.
Quiet == \A p \in Procs : procs[p].pc = "idle"

\* The caller's non-deleted file records whose album_id is the album.
ActiveFilesIn(a) ==
    {f \in FilesInAlbum(a) : ~IsDeleted(table[FileKey(UserId, f)])}

\* C7, as stated: with no store failure and requests run one at a time,
\* after any sequence of completed operations every album's file_count is
\* the number of non-deleted file records whose album_id is the album.
C7_AlbumCountInvariant ==
    Quiet =>
        \A a \in AlbumIds :
            Exists(AlbumKey(UserId, a)) =>
                table[AlbumKey(UserId, a)].file_count
                    = Cardinality(ActiveFilesIn(a))

\* C8: from a freshly created album, adding N distinct non-deleted files
\* one after another and then removing M <= N of them, with no store
\* failure, leaves file_count = N - M and exactly N - M files whose
\* album_id is the album.
C8_AlbumCountNormalOperation ==
    Quiet =>
        \A a \in AlbumIds :
            hist[a].clean =>
                /\ Exists(AlbumKey(UserId, a))
                /\ hist[a].removed \subseteq hist[a].added
                /\ table[AlbumKey(UserId, a)].file_count
                       = Cardinality(hist[a].added) - Cardinality(hist[a].removed)
                /\ FilesInAlbum(a) = hist[a].added \ hist[a].removed

C8_Witness ==
    /\ Quiet
    /\ \E a \in AlbumIds :
          /\ hist[a].clean
          /\ Cardinality(hist[a].added) = 2
          /\ Cardinality(hist[a].removed) = 1
          /\ table[AlbumKey(UserId, a)].file_count = 1

\* C9, as stated: in every reachable state an album's file_count is >= 0.
C9_CountNeverNegative ==
    \A a \in AlbumIds :
        (Exists(AlbumKey(UserId, a)) /\ Has(table[AlbumKey(UserId, a)], "file_count"))
            => table[AlbumKey(UserId, a)].file_count >= 0

\* C10, as stated: in every reachable state with no store failure each file
\* record's album_id is "none" or the id of an album record that exists in
\* the owner's album partition.
C10_AlbumReferenceIntegrity ==
    \A f \in FileIds :
        (Exists(FileKey(UserId, f)) /\ Has(table[FileKey(UserId, f)], "album_id"))
            => \/ table[FileKey(UserId, f)].album_id = "none"
               \/ Exists(AlbumKey(UserId, table[FileKey(UserId, f)].album_id))

\* A delete_album request and the unlink updates it made.
Unlinks(r, res) ==
    Cardinality({i \in DOMAIN r.calls : r.calls[i] = <<"db.update", res>>})

\* The album record is deleted only once every file the query found has
\* been unlinked; an unlink that raises ends the request with an error, the
\* album record untouched.
DeleteAlbumOrder(r) ==
    /\ Issued(r, "db.delete") =>
          /\ r.todo = {}
          /\ Unlinks(r, "ok") = Cardinality(r.found)
          /\ Unlinks(r, "fail") = 0
    /\ Unlinks(r, "fail") > 0 =>
          /\ ~Issued(r, "db.delete")
          /\ r = done
          /\ Failed(r)
          /\ Exists(AlbumKey(UserId, r.album_id))
          /\ table[AlbumKey(UserId, r.album_id)]
                 = r.before[1][AlbumKey(UserId, r.album_id)]

\* C11: delete_album removes the album record only after the unlink of
\* every file found pointing at the album succeeded; if an unlink fails the
\* album record is not deleted and an error is returned; after a successful
\* delete with requests run one at a time no file record has the album as
\* its album_id, and every file that was linked still has its record, and
\* no blob was touched.
C11_DeleteAlbumOrdering ==
    /\ \A r \in Requests : r.op = "delete_album" => DeleteAlbumOrder(r)
    /\ (done.op = "delete_album" /\ done.resp = << Resp(200, "Album deleted") >>) =>
          /\ ~Exists(AlbumKey(UserId, done.album_id))
          /\ FilesInAlbum(done.album_id) = {}
          /\ \A f \in done.found :
                /\ Exists(FileKey(UserId, f))
                /\ table[FileKey(UserId, f)].album_id = "none"
          /\ ~Issued(done, "s3.put") /\ ~Issued(done, "s3.delete")
          /\ blobs = done.before[2]

C11_Witness ==
    /\ done.op = "delete_album"
    /\ done.resp = << Resp(200, "Album deleted") >>
    /\ done.found # {}
    /\ \A f \in done.found :
          /\ Exists(FileKey(UserId, f))
          /\ table[FileKey(UserId, f)].s3_key \in blobs

\* The request was answered right after its first read, which did not raise.
AnsweredAtGet(r) == r.calls = << <<"db.get", "ok">> >>

\* The stores are as the last step of the request found them.
StoresKept(r) == table = r.before[1] /\ blobs = r.before[2]

\* C12: the recycle-bin permanent delete, called on an existing file whose
\* deletion flag is false, answers 400 and issues neither a blob delete nor
\* a record delete; called on a missing file it answers 404; either way
\* both stores are left as they were.
C12_BinPermanentDeleteNeedsSoftDelete ==
    /\ \A r \in Requests :
          (/\ r.op = "bin_permanent_delete"
           /\ r # done \/ Issued(r, "s3.delete") \/ Issued(r, "db.delete"))
              => IsDeleted(r.file)
    /\ (done.op = "bin_permanent_delete" /\ AnsweredAtGet(done)) =>
          LET key == FileKey(UserId, done.file_id)
              t == done.before[1] IN
          /\ (key \in DOMAIN t /\ ~IsDeleted(t[key])) =>
                /\ done.resp[1].status = 400
                /\ StoresKept(done)
          /\ key \notin DOMAIN t =>
                /\ done.resp[1].status = 404
                /\ StoresKept(done)

C12_Witness ==
    /\ done.op = "bin_permanent_delete"
    /\ done.resp[1].status = 400
    /\ Exists(FileKey(UserId, done.file_id))
    /\ ~IsDeleted(table[FileKey(UserId, done.file_id)])
    /\ table[FileKey(UserId, done.file_id)].s3_key \in blobs

\* C13: the write of update_file_name takes effect only if the record
\* exists with its deletion flag false at the moment of the write; when a
\* soft delete or a permanent delete got in between the handler's get_file
\* and the update, the rename fails with an error and the record is left as
\* it was, and is not created.
C13_RenameNeverOnDeleted ==
    (done.op = "rename" /\ Issued(done, "db.update")) =>
        LET key == FileKey(UserId, done.file_id)
            t == done.before[1] IN
        IF Made(done, "db.update", "ok")
        THEN /\ key \in DOMAIN t
             /\ Has(t[key], "is_deleted") /\ t[key].is_deleted = FALSE
             /\ table = (key :> ([file_name |-> "renamed"] @@ t[key])) @@ t
             /\ done.resp[1].status = 200
        ELSE /\ Failed(done)
             /\ StoresKept(done)

C13_Witness ==
    /\ done.op = "rename"
    /\ done.calls = << <<"db.get", "ok">>, <<"db.update", "cond">> >>
    /\ done.resp = << Resp(404, "File not found or already deleted") >>
    /\ ~Exists(FileKey(UserId, done.file_id))

\* C14: through the files entry points, soft-deleting an existing file ends
\* with its deletion flag true and restoring it ends with the flag false,
\* whatever the flag was before; done again, either succeeds without error;
\* and no attribute of the record other than the flag changes (the model
\* keeps no update timestamp).  A store call that raises leaves the stores
\* as they were.
C14_IdempotentSoftDeleteRestore ==
    (done.op \in {"soft_delete", "restore"} /\ Issued(done, "db.update")) =>
        LET key == FileKey(UserId, done.file_id)
            t == done.before[1]
            flag == (done.op = "soft_delete") IN
        /\ (key \in DOMAIN t /\ ~Made(done, "db.update", "fail")) =>
              /\ done.resp[1].status = 200
              /\ table = (key :> ([is_deleted |-> flag] @@ t[key])) @@ t
              /\ blobs = done.before[2]
        /\ Made(done, "db.update", "fail") => StoresKept(done)

\* A soft delete of a file that was soft-deleted already.
C14_Witness ==
    /\ done.op = "soft_delete"
    /\ done.resp = << Resp(200, "File moved to recycle bin") >>
    /\ IsDeleted(done.before[1][FileKey(UserId, done.file_id)])
    /\ table = done.before[1]

\* C15: the recycle-bin restore, called on an existing file whose deletion
\* flag is false, answers 400 and writes nothing to the table; called on a
\* soft-deleted file it sets the flag to false.
C15_StrictBinRestore ==
    /\ \A r \in Requests :
          (r.op = "bin_restore" /\ (r # done \/ Issued(r, "db.update")))
              => IsDeleted(r.file)
    /\ (done.op = "bin_restore" /\ AnsweredAtGet(done)) =>
          LET key == FileKey(UserId, done.file_id)
              t == done.before[1] IN
          (key \in DOMAIN t /\ ~IsDeleted(t[key])) =>
              /\ done.resp[1].status = 400
              /\ StoresKept(done)
    /\ (done.op = "bin_restore" /\ Made(done, "db.update", "ok")) =>
          LET key == FileKey(UserId, done.file_id)
              t == done.before[1] IN
          /\ done.resp = << Resp(200, "File restored to library") >>
          /\ table = (key :> ([is_deleted |-> FALSE] @@ t[key])) @@ t

C15_Witness ==
    /\ done.op = "bin_restore"
    /\ done.resp = << Resp(400, "File is not in recycle bin") >>
    /\ Exists(FileKey(UserId, done.file_id))
    /\ ~IsDeleted(table[FileKey(UserId, done.file_id)])
    /\ \E f \in FileIds :
          Exists(FileKey(UserId, f)) /\ IsDeleted(table[FileKey(UserId, f)])

\* add_file_to_album answered before its link write: a missing album or a
\* missing file gives 404, a soft-deleted file 400, and both stores are
\* left as they were; the link write is made only for a file that was read
\* with its deletion flag false.
C16_Rejections ==
    /\ (done.op = "add_file" /\ ~Issued(done, "db.update")) =>
          LET t == done.before[1]
              akey == AlbumKey(UserId, done.album_id)
              fkey == FileKey(UserId, done.file_id) IN
          /\ StoresKept(done)
          /\ (AnsweredAtGet(done) /\ akey \notin DOMAIN t) =>
                done.resp = << Resp(404, "Album not found") >>
          /\ (done.calls = << <<"db.get", "ok">>, <<"db.get", "ok">> >>
                 /\ fkey \notin DOMAIN t) =>
                done.resp = << Resp(404, "File not found") >>
          /\ (done.calls = << <<"db.get", "ok">>, <<"db.get", "ok">> >>
                 /\ fkey \in DOMAIN t) =>
                /\ IsDeleted(t[fkey])
                /\ done.resp = << Resp(400, "Cannot add deleted file to album") >>
    /\ \A r \in Requests :
          (r.op = "add_file" /\ Issued(r, "db.update")) =>
              /\ r.file # EmptyItem
              /\ ~IsDeleted(r.file)

\* The step that writes the link finds the file's record in the table with
\* its deletion flag false.
C16_LinkWrite ==
    \A p \in Procs :
        (procs[p].pc = "af_link" /\ procs'[p].pc = "af_album") =>
            /\ Exists(FileKey(UserId, procs[p].file_id))
            /\ ~IsDeleted(table[FileKey(UserId, procs[p].file_id)])

\* C16, as stated: add_file_to_album changes state only if the album exists
\* and the file exists with its deletion flag false; a missing album or
\* file gives 404, a soft-deleted file 400, and a rejected request changes
\* neither record; no file whose deletion flag is true at the time of the
\* link write becomes linked.
C16_AddFilePreconditions == [](C16_Rejections) /\ [][C16_LinkWrite]_vars

\* One step, seen from an album that is there before and after it: a cover
\* that is set stays as it is; a cover appears only in the count update of
\* an add_file_to_album whose file is of the image class, as the presigned
\* URL of that file.
CoverStep(a) ==
    LET k == AlbumKey(UserId, a) IN
    (k \in DOMAIN table /\ k \in DOMAIN table') =>
        /\ HasCover(table[k]) =>
              /\ Has(table'[k], "cover_url")
              /\ table'[k].cover_url = table[k].cover_url
        /\ (~HasCover(table[k]) /\ HasCover(table'[k])) =>
              \E p \in Procs :
                  /\ procs[p].pc = "af_count"
                  /\ procs[p].album_id = a
                  /\ Has(procs[p].file, "file_type")
                  /\ procs[p].file.file_type = "image"
                  /\ table'[k].cover_url
                        = get_presigned_url(procs[p].file.s3_key, 86400)

\* C17, as stated: an album's cover_url changes only from null to the
\* presigned URL of an image-class file, when that file is added; adding a
\* file of another class to a coverless album leaves it null; once set, no
\* later add, remove, soft delete or permanent delete changes it, two
\* concurrent adds of image files to a coverless album included.
C17_CoverSetOnce == [][\A a \in AlbumIds : CoverStep(a)]_vars

\* The request before this one was the same add or remove on album a: it
\* made its link or unlink write (its third call) and then raised, so the
\* count update was not made.
BrokeInWindow(a) ==
    /\ hist[a].last.op \in {"add_file", "remove_file"}
    /\ Len(hist[a].last.calls) >= 3
    /\ hist[a].last.calls[3] = <<"db.update", "ok">>
    /\ Made(hist[a].last, "db.get", "fail") \/ Made(hist[a].last, "db.update", "fail")
    /\ Failed(hist[a].last)

\* `done` is the same operation with the same arguments as the request
\* before it, and none of its store calls raised.
RetryOfLast(a) ==
    /\ done.op = hist[a].last.op
    /\ done.album_id = a
    /\ done.file_id = hist[a].last.file_id
    /\ \A c \in Range(done.calls) : c[2] # "fail"

CountMatchesLinks(a) ==
    /\ Exists(AlbumKey(UserId, a))
    /\ Has(table[AlbumKey(UserId, a)], "file_count")
    /\ table[AlbumKey(UserId, a)].file_count = Cardinality(FilesInAlbum(a))

\* C18, as stated: when an add or remove fails after its link/unlink write
\* and before its count update, and the same operation is then invoked
\* again with the same arguments and no failure, the album's file_count
\* equals the number of files linked to the album once the retry returns.
C18_PartialFailureRetry ==
    \A a \in AlbumIds :
        (BrokeInWindow(a) /\ RetryOfLast(a)) => CountMatchesLinks(a)

\* add_file_to_album has just returned 200 for the second time in
\* succession for the same album and the same file.
AddedTwice(a) ==
    /\ done.op = "add_file"
    /\ done.album_id = a
    /\ Len(done.resp) = 1 /\ done.resp[1].status = 200
    /\ hist[a].last.op = "add_file"
    /\ hist[a].last.file_id = done.file_id
    /\ Len(hist[a].last.resp) = 1 /\ hist[a].last.resp[1].status = 200

\* C19, as stated: adding the same file to the same album twice in
\* succession, with no failures, leaves the file's album_id and the album's
\* file_count and cover_url as the first add left them.
C19_AddFileIdempotent ==
    \A a \in AlbumIds :
        AddedTwice(a) =>
            /\ table[FileKey(UserId, done.file_id)].album_id = hist[a].last.link
            /\ table[AlbumKey(UserId, a)].file_count = hist[a].last.album.file_count
            /\ HasCover(table[AlbumKey(UserId, a)]) = HasCover(hist[a].last.album)
            /\ HasCover(hist[a].last.album) =>
                  table[AlbumKey(UserId, a)].cover_url = hist[a].last.album.cover_url

\* A file has been encrypted for its owner and decrypted for the same user.
RoundTrip == crypt.pc = "read" /\ crypt.reader = crypt.user_id

\* C20, as stated: for every byte string p, the empty one included, and
\* every user id u, decrypt_file(encrypt_file(p, u)[0], u) = p, and the
\* second component encrypt_file returns is the SHA-256 hex digest of p,
\* not that of the ciphertext.
C20_CipherRoundTrip ==
    /\ RoundTrip => crypt.result = Returns(crypt.file_bytes)
    /\ crypt.pc \in {"stored", "read"} =>
          /\ crypt.file_hash = sha256_hexdigest(crypt.file_bytes)
          /\ crypt.file_hash # sha256_hexdigest(crypt.encrypted)

C20_Witness ==
    /\ RoundTrip
    /\ crypt.file_bytes = <<>>
    /\ crypt.result = Returns(<<>>)
    /\ Len(crypt.encrypted) = NONCE_LEN + TAG_LEN

\* An altered blob has been handed to decrypt_file.
ReadAltered == crypt.pc = "read_altered"

\* C21, as stated: decrypt_file raises, and returns no plaintext, for a
\* blob shorter than 12 bytes and for a blob got from an encrypt_file output
\* by changing a bit of its nonce prefix or of its ciphertext-with-tag.
C21_DecryptRejectsAltered ==
    ReadAltered =>
        /\ ~crypt.result.ok
        /\ crypt.result.bytes = <<>>
        /\ crypt.result.error \in {"ValueError", "InvalidTag"}
        /\ Len(crypt.encrypted) < NONCE_LEN => crypt.result.error = "ValueError"

C21_Witness ==
    /\ ReadAltered
    /\ crypt.reader = crypt.user_id
    /\ Len(crypt.encrypted) = NONCE_LEN + Len(crypt.file_bytes) + TAG_LEN
    /\ Len(crypt.file_bytes) > 0
    /\ crypt.result = Raises("InvalidTag")

C21_WitnessShort ==
    /\ ReadAltered
    /\ Len(crypt.encrypted) = NONCE_LEN - 1
    /\ crypt.result = Raises("ValueError")

\* An untouched blob has been handed to decrypt_file under another user id
\* than the one it was encrypted for.
ReadByOther == crypt.pc = "read" /\ crypt.reader # crypt.user_id

\* C22, as stated: decrypt_file(encrypt_file(p, u1)[0], u2) fails for
\* u1 # u2, and derive_key gives one key per user id, different user ids
\* having different keys.
C22_CrossUserIsolation ==
    /\ ReadByOther => ~crypt.result.ok /\ crypt.result.bytes = <<>>
    /\ \A u1, u2 \in UserIdInputs : (derive_key(u1) = derive_key(u2)) <=> (u1 = u2)

C22_Witness ==
    /\ ReadByOther
    /\ Len(crypt.file_bytes) > 0
    /\ crypt.result = Raises("InvalidTag")

\* The preview has been answered for an object of length L.
Previewed == preview.pc = "done"
ObjLen == Len(preview.decrypted_bytes)

\* The last byte asked for: the one given, or the object's last byte.
LastAsked ==
    IF preview.range.kind = "open" THEN ObjLen - 1
    ELSE MinOf(preview.range.last, ObjLen - 1)

\* bytes=s-e or bytes=s- with 0 <= s <= e and s < L.
Satisfiable ==
    /\ preview.range.kind \in {"closed", "open"}
    /\ ObjLen > 0
    /\ preview.range.first < ObjLen
    /\ preview.range.kind = "closed" => preview.range.first <= preview.range.last

\* C23, as stated: for an object of length L > 0 and a header bytes=s-e
\* with 0 <= s <= e and s < L (e optional, clamped to L-1), preview_file
\* answers 206 with exactly the bytes s..min(e, L-1), a Content-Length of
\* that many bytes and Content-Range `bytes s-min(e,L-1)/L`.
C23_RangeRead ==
    (Previewed /\ Satisfiable) =>
        /\ preview.resp.status = 206
        /\ preview.resp.body
              = [i \in 1..(LastAsked - preview.range.first + 1) |->
                    preview.decrypted_bytes[preview.range.first + i]]
        /\ preview.resp.content_length
              = IntToStr(LastAsked - preview.range.first + 1)
        /\ preview.resp.content_range
              = <<"b", "y", "t", "e", "s", " ">> \o IntToStr(preview.range.first)
                    \o <<"-">> \o IntToStr(LastAsked)
                    \o <<"/">> \o IntToStr(ObjLen)

\* 0-99 on a 500-byte object: 100 bytes, `bytes 0-99/500`.
C23_Witness ==
    /\ Previewed
    /\ ObjLen = 500
    /\ preview.range.header = <<"b", "y", "t", "e", "s", "=", "0", "-", "9", "9">>
    /\ preview.resp.status = 206
    /\ Len(preview.resp.body) = 100
    /\ preview.resp.content_length = <<"1", "0", "0">>
    /\ preview.resp.content_range
          = <<"b", "y", "t", "e", "s", " ", "0", "-", "9", "9", "/", "5", "0", "0">>

\* A range past the end of the object, a start past its end, or a header
\* that is not of the form bytes=s-e.
Unsatisfiable ==
    \/ preview.range.kind = "malformed"
    \/ /\ preview.range.kind \in {"closed", "open"}
       /\ preview.range.first >= ObjLen
    \/ /\ preview.range.kind = "closed"
       /\ preview.range.first > preview.range.last

\* C24, as stated: a preview whose range lies beyond the object (start >=
\* L), whose start exceeds its end, or whose header is malformed, fails
\* with 416 and never yields a 206.
C24_UnsatisfiableRange ==
    (Previewed /\ Unsatisfiable) => preview.resp.status = 416

\* The part of C24 about malformed headers alone.
MalformedRangeRejected ==
    (Previewed /\ preview.range.kind = "malformed") => preview.resp.status = 416

\* A preview or a download has just returned.
Retrieved == done.op \in {"preview", "download"}
RecordBefore == FileKey(UserId, done.file_id) \in DOMAIN done.before[1]

\* C25, as stated: preview_file and download_file answer 404 with no bytes
\* when there is no record under (caller, file id) or the blob is absent,
\* answer a server error with a fixed message and no bytes when decryption
\* fails, and return plaintext only when the record lookup, the blob fetch
\* and the decryption with the caller's key all succeeded.
C25_RetrievalErrors ==
    Retrieved =>
        /\ Len(done.resp) = 1
        /\ (done.calls = << <<"db.get", "ok">> >> /\ ~RecordBefore) =>
              done.resp[1].status = 404 /\ done.body = <<>>
        /\ (Issued(done, "s3.get") /\ ~Made(done, "s3.get", "fail")
                /\ done.s3_key \notin done.before[2]) =>
              done.resp[1].status = 404 /\ done.body = <<>>
        /\ Made(done, "decrypt", "fail") =>
              /\ done.resp[1] = Resp(500, "Failed to decrypt file")
              /\ done.body = <<>>
        /\ done.body # <<>> =>
              /\ done.resp[1].status = 200
              /\ done.calls = << <<"db.get", "ok">>, <<"s3.get", "ok">>,
                                 <<"decrypt", "ok">> >>
              /\ done.s3_key \in done.before[2]
              /\ done.body = Plaintext(done.file.s3_key)

\* A download that found the record and then no blob.
C25_Witness ==
    /\ done.op = "download"
    /\ done.calls = << <<"db.get", "ok">>, <<"s3.get", "nokey">> >>
    /\ done.resp[1].status = 404

C25_WitnessDecrypt ==
    /\ done.op = "preview"
    /\ Made(done, "decrypt", "fail")
    /\ done.resp[1].status = 500

C25_WitnessBytes ==
    /\ Retrieved
    /\ done.body # <<>>

Sanitized == naming.pc = "done"

\* C26, as stated: for every input, sanitize_filename returns a non-empty
\* string of at most 200 characters with no path separator and no control
\* character (tab, newline and carriage return included), and the key
\* make_s3_key builds from it is users/{username}/{file_id}/{name} with no
\* further path segment.
C26_FilenameSanitization ==
    Sanitized =>
        /\ naming.safe_filename # <<>>
        /\ Len(naming.safe_filename) <= NAME_CAP
        /\ \A i \in DOMAIN naming.safe_filename :
              /\ naming.safe_filename[i] \notin {"/", "\\"}
              /\ naming.safe_filename[i] \notin ControlChars
        /\ Len(Split(naming.s3_key, "/")) = 4
        /\ Split(naming.s3_key, "/")[1] = <<"u", "s", "e", "r", "s">>
        /\ Split(naming.s3_key, "/")[2] = <<"a", "l", "i", "c", "e">>
        /\ Split(naming.s3_key, "/")[3] = <<"f", "1">>

\* C26 without its clause on control characters.
SanitizedSafely ==
    Sanitized =>
        /\ naming.safe_filename # <<>>
        /\ Len(naming.safe_filename) <= NAME_CAP
        /\ \A i \in DOMAIN naming.safe_filename :
              naming.safe_filename[i] \notin {"/", "\\", "NUL"}
        /\ Len(Split(naming.s3_key, "/")) = 4

\* The caller's files that are not soft-deleted, as the table was filled.
LiveFiles == {f \in FileIds : /\ stats.given.files[f] # Absent
                              /\ ~stats.given.files[f].is_deleted}
LiveOfClass(class) == {f \in LiveFiles : stats.given.files[f].file_type = class}

RECURSIVE GivenBytes(_)
GivenBytes(fs) ==
    IF fs = {} THEN 0
    ELSE LET f == CHOOSE x \in fs : TRUE
         IN  stats.given.files[f].file_size + GivenBytes(fs \ {f})

\* C27, as stated: get_storage_stats(u) returns the number of u's file
\* records whose deletion flag is false, the sum of their sizes, and the
\* sums per media class, these adding up to the total; soft-deleted files,
\* album records, the profile record and other users' records count for
\* nothing.
C27_StorageStats ==
    stats.pc = "done" =>
        /\ stats.result.file_count = Cardinality(LiveFiles)
        /\ stats.result.total_bytes = GivenBytes(LiveFiles)
        /\ stats.result.images_bytes = GivenBytes(LiveOfClass("image"))
        /\ stats.result.videos_bytes = GivenBytes(LiveOfClass("video"))
        /\ stats.result.documents_bytes = GivenBytes(LiveOfClass("document"))
        /\ stats.result.total_bytes
              = stats.result.images_bytes + stats.result.videos_bytes
                    + stats.result.documents_bytes

\* One live file, one soft-deleted file, an album, the profile and another
\* user's file in the table.
C27_Witness ==
    /\ stats.pc = "done"
    /\ Cardinality(LiveFiles) = 1
    /\ \E f \in FileIds : /\ stats.given.files[f] # Absent
                          /\ stats.given.files[f].is_deleted
    /\ stats.given.album /\ stats.given.profile /\ stats.given.other
    /\ stats.result.file_count = 1

\* What a request of the caller holds of the other account: a record it
\* read, a key it took from one, or bytes it is about to send.
HoldsOthers(r) ==
    \/ r.file \in Range([k \in DOMAIN OtherTable |-> OtherTable[k]])
    \/ r.s3_key \in OtherBlobs
    \/ \E k \in OtherBlobs : r.body = Plaintext(k)

C29_UsernameUnique ==
    \A u1, u2 \in Accounts :
        (u1 # u2 /\ Exists(ProfileKey(u1)) /\ Exists(ProfileKey(u2)))
            => table[ProfileKey(u1)].username # table[ProfileKey(u2)].username

\* get_jwks has just been called.
JwksCalled == jwks.call.made

\* C30, as stated: when a refresh fails and a key set is cached, get_jwks
\* returns the cached key set without raising and leaves it in place; it
\* raises the service-unavailable error only when a fetch fails and no key
\* set was ever cached; while the cache is non-empty and its TTL has not
\* expired it performs no fetch.
C30_JwksStaleFallback ==
    JwksCalled =>
        /\ (jwks.call.failed /\ jwks.call.cached # NoKeys) =>
              /\ jwks.call.returned = jwks.call.cached
              /\ jwks.call.raised = 0
              /\ jwks.cache = jwks.call.cached
              /\ jwks.expiry = jwks.call.expiry
        /\ jwks.call.raised # 0 =>
              /\ jwks.call.raised = 503
              /\ jwks.call.failed
              /\ jwks.call.cached = NoKeys
        /\ (jwks.call.cached # NoKeys /\ jwks.call.now <= jwks.call.expiry) =>
              /\ ~jwks.call.fetched
              /\ jwks.call.returned = jwks.call.cached

\* The cached keys had expired, the refresh failed, the stale keys were
\* returned.
C30_Witness ==
    /\ JwksCalled
    /\ jwks.call.failed
    /\ jwks.call.cached \in KeySets
    /\ jwks.call.now > jwks.call.expiry
    /\ jwks.call.expiry > 0
    /\ jwks.call.returned = jwks.call.cached

\* The verify_token call of v has ended.
Verified(v) == verify.of[v].pc = "done"

\* The first lookup of v's call missed: the token names a key and the key
\* set get_jwks returned does not hold it.
MissedFirst(v) ==
    LET c == verify.of[v]
    IN  c.pc # "idle" /\ c.kid # NoKid /\ c.first # NoKeys /\ c.kid \notin KidsOf(c.first)

\* C31, as stated: a verify_token call whose kid is absent from the key set
\* forces one refresh and no more, looks the kid up once more in what that
\* refresh gave, and answers 401 when the kid is still absent; a call whose
\* kid is found in an unexpired cache forces no refresh and fetches nothing.
C31_RefreshOnMiss ==
    \A v \in Verifiers :
        LET c == verify.of[v]
        IN  /\ c.forced <= 1
            /\ c.fetches <= 1 + c.forced
            /\ (Verified(v) /\ MissedFirst(v)) =>
                  /\ c.forced = 1
                  /\ c.second # NoKeys
                  /\ c.kid \notin KidsOf(c.second) => c.status = 401
                  /\ c.kid \in KidsOf(c.second) =>
                        c.status = IF c.good THEN 200 ELSE 401
            /\ (c.pc # "idle" /\ ~MissedFirst(v)) => c.forced = 0
            /\ (c.pc # "idle" /\ c.fresh /\ c.kid \in KidsOf(c.cached)) =>
                  /\ c.forced = 0
                  /\ c.fetches = 0
                  /\ Verified(v)

\* A call missed in a fresh cache, forced the refresh, and found the kid in
\* the rotated key set.
C31_Witness ==
    \E v \in Verifiers :
        /\ Verified(v)
        /\ MissedFirst(v)
        /\ verify.of[v].fresh
        /\ verify.of[v].forced = 1
        /\ verify.of[v].kid \in KidsOf(verify.of[v].second)
        /\ verify.of[v].status = 200

\* A call missed twice and was rejected.
C31_WitnessRejected ==
    \E v \in Verifiers :
        /\ Verified(v)
        /\ MissedFirst(v)
        /\ verify.of[v].forced = 1
        /\ verify.of[v].kid \notin KidsOf(verify.of[v].second)
        /\ verify.of[v].status = 401

\* A call found its kid in an unexpired cache.
C31_WitnessHit ==
    \E v \in Verifiers :
        /\ Verified(v)
        /\ verify.of[v].fresh
        /\ verify.of[v].kid \in KidsOf(verify.of[v].cached)
        /\ verify.of[v].fetches = 0

\* Slot p runs a recycle-bin permanent delete, and this step is the one in
\* which it removes the blob or the record.
BinPermanentRemoves(p) ==
    /\ procs[p].op = "bin_permanent_delete"
    /\ procs'[p] # procs[p]
    /\ \/ procs[p].s3_key \in blobs \ blobs'
       \/ FileKey(UserId, procs[p].file_id) \in (DOMAIN table) \ (DOMAIN table')

\* C32, as stated: a recycle-bin permanent delete removes the blob and the
\* record only while the file's deletion flag is true, whatever a restore
\* of the same file did in between; a restored file keeps its blob and its
\* record.
C32_NoBinDeleteOfRestored ==
    [][\A p \in Procs :
          (BinPermanentRemoves(p) /\ Exists(FileKey(UserId, procs[p].file_id)))
              => IsDeleted(table[FileKey(UserId, procs[p].file_id)])]_vars

\* The operations that are not meant to create a record.
NonCreating ==
    {"soft_delete", "restore", "bin_restore", "rename",
     "add_file", "remove_file", "delete_album"}

\* Slot p runs one of them and takes this step.
NonCreatingStep(p) == procs[p].op \in NonCreating /\ procs'[p] # procs[p]

\* C33, as stated: no write of soft delete, restore, rename, add file to
\* album, remove file from album or delete album creates a record under a
\* key that held none just before the write, whatever a permanent delete of
\* the file or a delete of the album did in between.
C33_OnlyCreatorsCreate ==
    [][\A p \in Procs :
          NonCreatingStep(p) => (DOMAIN table') \subseteq (DOMAIN table)]_vars

\* DELETE /files/{file_id}/permanent has just answered.
FilesPermanentDone == done.op = "permanent_delete"

\* C34, as stated: the files router's permanent delete, called on a file of
\* the caller that exists, deleted or not, deletes the blob and then the
\* record; called on an id that has no record it answers 404 and changes
\* nothing.
C34_FilesPermanentDelete ==
    FilesPermanentDone =>
        LET key == FileKey(UserId, done.file_id) IN
        IF done.file # EmptyItem
        THEN /\ done.resp = <<Resp(200, "File permanently deleted")>>
             /\ done.calls = <<<<"db.get", "ok">>, <<"s3.delete", "ok">>,
                               <<"db.delete", "ok">>>>
             /\ key \in DOMAIN done.before[1]
             /\ done.s3_key \notin done.before[2]
             /\ ~Exists(key)
             /\ done.s3_key \notin blobs
        ELSE /\ done.resp = <<Resp(404, "File not found")>>
             /\ done.calls = <<<<"db.get", "ok">>>>
             /\ key \notin DOMAIN done.before[1]
             /\ table = done.before[1]
             /\ blobs = done.before[2]

\* An active file, never soft-deleted, was permanently deleted.
C34_Witness ==
    /\ FilesPermanentDone
    /\ done.file # EmptyItem
    /\ ~IsDeleted(done.file)
    /\ done.resp[1].status = 200
    /\ ~Exists(FileKey(UserId, done.file_id))

\* A soft-deleted file was permanently deleted.
C34_WitnessDeleted ==
    /\ FilesPermanentDone
    /\ IsDeleted(done.file)
    /\ done.resp[1].status = 200

\* An id with no record was answered 404.
C34_WitnessNotFound ==
    /\ FilesPermanentDone
    /\ done.resp[1].status = 404
    /\ table # <<>>

\* Every request made so far has returned.
AllReturned == \A p \in Procs : ~InFlight(p)

\* The requests made were adds of as many different files to album a.
AddedDistinct(a) == nreq > 0 /\ Cardinality(FilesInAlbum(a)) = nreq

\* C35, as stated: K add_file_to_album requests for K different live files
\* and one album, interleaved in any way with no store failure, leave the
\* album's file_count grown by K and all K files linked to the album.
C35_NoLostCount ==
    \A a \in AlbumIds :
        (AllReturned /\ AddedDistinct(a)) =>
            /\ table[AlbumKey(UserId, a)].file_count = nreq
            /\ \A f \in FilesInAlbum(a) : ~IsDeleted(table[FileKey(UserId, f)])

\* Two adds of different files overlapped: the one that returned last had
\* read the album before the other wrote its count and the cover.
C35_Witness ==
    \E a \in AlbumIds :
        /\ AllReturned
        /\ AddedDistinct(a)
        /\ nreq = MaxAdds
        /\ done.op = "add_file"
        /\ done.cover # NoCover
        /\ HasCover(done.before[1][AlbumKey(UserId, a)])
        /\ table[AlbumKey(UserId, a)].file_count = MaxAdds

\* A restore, by either router, has just succeeded on a file that was in
\* the recycle bin.
RestoredFromBin ==
    /\ done.op \in {"restore", "bin_restore"}
    /\ done.resp[1].status = 200
    /\ IsDeleted(done.before[1][FileKey(UserId, done.file_id)])

\* The listings a file of the caller appears in: GET /files, the three
\* listings by type, and the recycle bin.
ListedActive(k) ==
    /\ k \in get_user_files(table, UserId)
    /\ k \in get_files_by_type(table, UserId, table[k].file_type)
ListedNowhereActive(k) ==
    /\ k \notin get_user_files(table, UserId)
    /\ \A c \in {"image", "video", "document"} :
          k \notin get_files_by_type(table, UserId, c)
ListedInBin(k) == k \in get_deleted_files(table, UserId)

\* C36, as stated: a soft delete followed by a restore gives the record
\* back as it was, album_id included (the update timestamp is not held
\* in the model's records), and the object store is never touched; the
\* restored file is in the active listings and not in the recycle bin; a
\* soft-deleted file is in the recycle bin and in no active listing.
C36_SoftDeleteRestoreRoundTrip ==
    /\ blobs = BinBlobs
    /\ RestoredFromBin =>
          LET k == FileKey(UserId, done.file_id) IN
          /\ table[k] = BinTable[k]
          /\ ListedActive(k)
          /\ ~ListedInBin(k)
    /\ \A f \in FileIds :
          LET k == FileKey(UserId, f) IN
          IsDeleted(table[k]) =>
              /\ table[k] = [BinTable[k] EXCEPT !.is_deleted = TRUE]
              /\ ListedInBin(k)
              /\ ListedNowhereActive(k)

\* The file that sits in an album was soft-deleted and then restored.
C36_Witness ==
    /\ RestoredFromBin
    /\ done.file_id = FileId(1)
    /\ table[FileKey(UserId, FileId(1))].album_id = AlbumId(1)
    /\ ~IsDeleted(table[FileKey(UserId, FileId(1))])

\* A file is in the recycle bin.
C36_WitnessInBin ==
    /\ done.op = "soft_delete"
    /\ done.resp[1].status = 200
    /\ ListedInBin(FileKey(UserId, done.file_id))

\* A read of a file's details, or a download, has just succeeded on a
\* file that a rename had given a new name.
ReadAfterRename ==
    /\ done.op \in {"get_file", "download"}
    /\ done.resp[1].status = 200
    /\ Has(done.file, "file_name")

\* C37, as stated: after a rename to n has succeeded, get_file reports the
\* display name n and download_file uses n as the attachment filename.
C37_RenameVisible ==
    ReadAfterRename =>
        IF done.op = "get_file"
        THEN done.body = <<done.file.file_name>>
        ELSE AttachmentName(done.file) = done.file.file_name

\* upload_file has just succeeded.
JustUploaded == trip.pc = "uploaded"

\* The uploader has just downloaded the file, and its record was there.
DownloadedOwn == trip.pc = "downloaded" /\ trip.item # EmptyItem

EmptiedBin == done.op = "empty_bin" /\ done.calls[1] = <<"db.query", "ok">>

\* How many calls of one kind a request made, and how many succeeded.
CallsOf(r, call) == Cardinality({i \in DOMAIN r.calls : r.calls[i][1] = call})
OkCallsOf(r, call) ==
    Cardinality({i \in DOMAIN r.calls : r.calls[i] = <<call, "ok">>})

\* What the answer of empty_recycle_bin has to be like.
EmptyBinAnswered ==
    EmptiedBin =>
        /\ CallsOf(done, "s3.delete") = Cardinality(done.found)
        /\ CallsOf(done, "db.delete") = OkCallsOf(done, "s3.delete")
        /\ done.failed # {} => done.resp[1].status = 500
        /\ done.resp[1].status = 200 =>
              /\ done.body = <<Cardinality(done.found)>>
              /\ \A f \in done.found :
                    /\ ~Exists(FileKey(UserId, f.file_id))
                    /\ f.item.s3_key \notin blobs
        /\ done.resp[1].status \in {200, 500}

\* What a step of empty_recycle_bin may do: the files it lists all have the
\* flag set as it lists them, and it removes no blob and no record but
\* those of the files it listed.
EmptyBinStep(p) ==
    (procs'[p].op = "empty_bin" /\ procs'[p] # procs[p]) =>
        /\ procs[p].op # "empty_bin" =>
              \A f \in procs'[p].found :
                  IsDeleted(table[FileKey(UserId, f.file_id)])
        /\ blobs \ blobs' \subseteq {f.item.s3_key : f \in procs'[p].found}
        /\ (DOMAIN table) \ (DOMAIN table')
              \subseteq {FileKey(UserId, f.file_id) : f \in procs'[p].found}

\* C39, as stated: empty_recycle_bin tries, for every soft-deleted file of
\* the caller, the blob delete and then the record delete, and goes on
\* with the other files after a failure; it answers success, with
\* deleted_count the number of soft-deleted files, only if every one was
\* removed from both stores, and an error if any failed; it removes neither
\* blob nor record of a file whose flag was false when the bin was listed.
C39_EmptyRecycleBin ==
    /\ []EmptyBinAnswered
    /\ [][\A p \in Procs : EmptyBinStep(p)]_vars

\* Two files were in the bin, the first delete failed, and the handler went
\* on to remove the other file from both stores before answering 500.
C39_Witness ==
    /\ EmptiedBin
    /\ Cardinality(done.found) = 2
    /\ Cardinality(done.failed) = 1
    /\ done.calls[2] = <<"s3.delete", "fail">>
    /\ done.resp[1].status = 500
    /\ \E f \in done.found :
          /\ ~Exists(FileKey(UserId, f.file_id))
          /\ f.item.s3_key \notin blobs

\* Two files were in the bin and both were removed.
C39_WitnessEmptied ==
    /\ EmptiedBin
    /\ done.resp[1].status = 200
    /\ done.body = <<2>>
    /\ blobs = {}

\* DELETE /recycle-bin/empty has been routed.
DeleteEmptyRouted ==
    /\ route.pc = "routed"
    /\ route.method = "DELETE"
    /\ route.path = <<<<"e", "m", "p", "t", "y">>>>

\* C40, as stated: a DELETE of /empty below the recycle-bin prefix is
\* handed to empty_recycle_bin, whose body runs, and not to
\* permanent_delete with file_id "empty".
C40_EmptyReachable ==
    DeleteEmptyRouted =>
        /\ route.endpoint = "empty_recycle_bin"
        /\ route.status = 0

=============================================================================
